---------------------------- MODULE Spec2Model ----------------------------
(***************************************************************************)
(* Model of the transcription server of live-meeting-subtitles             *)
(* (src/server/main.py, src/server/transcriber.py,                         *)
(* src/server/translators/__init__.py, src/shared/protocol.py).            *)
(*                                                                         *)
(* Audio.  A binary frame is raw int16 PCM.  A block of samples is kept    *)
(* run-length encoded: a sequence of runs <<count, w>>, count > 0, that    *)
(* stands for count consecutive int16 samples of value 32 * w, which       *)
(* _handle_audio turns into the float 32 * w / 32768 = w / 1024.  Sample   *)
(* counts are the real ones (16000 samples per second).                    *)
(*                                                                         *)
(* Durations.  _buffer_duration is a Python float: an IEEE-754 binary64    *)
(* accumulated with += len(audio) / 16000.  Binary64 values are modelled   *)
(* exactly, as a record [e, hi, lo] standing for                           *)
(* (hi * 2^28 + lo) * 2^(e - 52) with 2^52 <= hi * 2^28 + lo < 2^53 (zero  *)
(* is e = hi = lo = 0); FDiv and FAdd round to nearest, ties to even, as   *)
(* the interpreter does.                                                   *)
(***************************************************************************)
EXTENDS Integers, Sequences, FiniteSets, TLC

(***************************************************************************)
(* IEEE-754 binary64 arithmetic on non-negative values                     *)
(***************************************************************************)
RECURSIVE Doublings(_, _)
Doublings(n, k) == IF k = 0 THEN <<n>> ELSE <<n>> \o Doublings(2 * n, k - 1)

\* 2^0 .. 2^30
Powers == Doublings(1, 30)

Pow2(k) == Powers[k + 1]

\* the base of the two-limb mantissa
Limb == Pow2(28)

FZero == [e |-> 0, hi |-> 0, lo |-> 0]

FIsZero(a) == a.hi = 0 /\ a.lo = 0

\* the next k quotient bits of r / d (r < d, k a multiple of 4) appended to
\* the quotient q, four bits at a time, as <<quotient, remainder>>
RECURSIVE DivBits(_, _, _, _)
DivBits(q, r, d, k) ==
    IF k = 0 THEN <<q, r>>
    ELSE DivBits(16 * q + ((16 * r) \div d), (16 * r) % d, d, k - 4)

\* floor(log2(n / d)) for n, d > 0
RECURSIVE FloorLog2(_, _)
FloorLog2(n, d) ==
    IF n >= 2 * d THEN 1 + FloorLog2(n, 2 * d)
    ELSE IF n < d THEN FloorLog2(2 * n, d) - 1
    ELSE 0

\* a 53-bit mantissa plus one: the carry out of 2^53 renormalises
FIncrement(e, hi, lo) ==
    IF lo + 1 < Limb THEN [e |-> e, hi |-> hi, lo |-> lo + 1]
    ELSE IF hi + 1 < Pow2(25) THEN [e |-> e, hi |-> hi + 1, lo |-> 0]
    ELSE [e |-> e + 1, hi |-> Pow2(24), lo |-> 0]

\* the binary64 nearest to n / d (Python's int / int true division)
FDiv(n, d) ==
    IF n = 0 THEN FZero
    ELSE LET e    == FloorLog2(n, d)
             num  == IF e < 0 THEN n * Pow2(0 - e) ELSE n
             den  == IF e > 0 THEN d * Pow2(e) ELSE d
             top  == DivBits(0, num % den, den, 24)
             bot  == DivBits(0, top[2], den, 28)
             hi   == Pow2(24) + top[1]
             lo   == bot[1]
             rem  == bot[2]
             up   == 2 * rem > den \/ (2 * rem = den /\ lo % 2 = 1)
         IN  IF up THEN FIncrement(e, hi, lo)
             ELSE [e |-> e, hi |-> hi, lo |-> lo]

\* a two-limb value shifted right by d bits; a lost one bit is kept as the
\* lowest bit of the result (sticky bit)
ShiftRightSticky(hi, lo, d) ==
    LET nhi  == IF d = 0 THEN hi
                ELSE IF d < 28 THEN hi \div Pow2(d)
                ELSE 0
        nlo  == IF d = 0 THEN lo
                ELSE IF d < 28
                     THEN (lo \div Pow2(d)) + (hi % Pow2(d)) * Pow2(28 - d)
                ELSE IF d < 56 THEN hi \div Pow2(d - 28)
                ELSE 0
        lost == IF d = 0 THEN FALSE
                ELSE IF d < 28 THEN lo % Pow2(d) # 0
                ELSE IF d < 56 THEN lo # 0 \/ hi % Pow2(d - 28) # 0
                ELSE hi # 0 \/ lo # 0
    IN  [hi |-> nhi, lo |-> IF lost /\ nlo % 2 = 0 THEN nlo + 1 ELSE nlo]

\* a + b in binary64, round to nearest even (both operands >= 0)
FAdd(a, b) ==
    IF FIsZero(a) THEN b
    ELSE IF FIsZero(b) THEN a
    ELSE LET x    == IF a.e >= b.e THEN a ELSE b
             y    == IF a.e >= b.e THEN b ELSE a
             \* both mantissas with three extra low bits (56 bits)
             xhi  == x.hi * 8 + (x.lo \div Pow2(25))
             xlo  == (x.lo % Pow2(25)) * 8
             y8hi == y.hi * 8 + (y.lo \div Pow2(25))
             y8lo == (y.lo % Pow2(25)) * 8
             ys   == ShiftRightSticky(y8hi, y8lo, x.e - y.e)
             slo  == (xlo + ys.lo) % Limb
             shi  == xhi + ys.hi + ((xlo + ys.lo) \div Limb)
             ovf  == shi >= Limb
             n    == IF ovf THEN ShiftRightSticky(shi, slo, 1)
                     ELSE [hi |-> shi, lo |-> slo]
             e    == IF ovf THEN x.e + 1 ELSE x.e
             grs  == n.lo % 8
             mlo  == (n.lo \div 8) + (n.hi % 8) * Pow2(25)
             mhi  == n.hi \div 8
             up   == grs > 4 \/ (grs = 4 /\ mlo % 2 = 1)
         IN  IF up THEN FIncrement(e, mhi, mlo)
             ELSE [e |-> e, hi |-> mhi, lo |-> mlo]

\* a >= b on binary64 values
FGeq(a, b) ==
    IF FIsZero(b) THEN TRUE
    ELSE IF FIsZero(a) THEN FALSE
    ELSE IF a.e # b.e THEN a.e > b.e
    ELSE IF a.hi # b.hi THEN a.hi > b.hi
    ELSE a.lo >= b.lo

(***************************************************************************)
(* Sample blocks (run-length encoded) and the numpy operations on them     *)
(***************************************************************************)
Min(a, b) == IF a <= b THEN a ELSE b

\* len(audio)
RECURSIVE NumSamples(_)
NumSamples(audio) ==
    IF audio = <<>> THEN 0 ELSE audio[1][1] + NumSamples(Tail(audio))

\* sum(audio ** 2), in units of 2^-20 (a sample is w / 1024)
RECURSIVE SumSquares(_)
SumSquares(audio) ==
    IF audio = <<>> THEN 0
    ELSE audio[1][1] * audio[1][2] * audio[1][2] + SumSquares(Tail(audio))

\* audio[-k:]; in Python audio[-0:] is the whole array
RECURSIVE LastSamples(_, _)
LastSamples(audio, k) ==
    IF k = 0 \/ audio = <<>> THEN audio
    ELSE LET n    == Len(audio)
             last == audio[n]
         IN  IF last[1] >= k THEN << <<k, last[2]>> >>
             ELSE Append(LastSamples(SubSeq(audio, 1, n - 1), k - last[1]), last)

\* two sample arrays joined, adjacent runs of one value merged
Join(a, b) ==
    IF a = <<>> THEN b
    ELSE IF b = <<>> THEN a
    ELSE LET n == Len(a)
         IN  IF a[n][2] = b[1][2]
             THEN SubSeq(a, 1, n - 1) \o << <<a[n][1] + b[1][1], a[n][2]>> >>
                  \o Tail(b)
             ELSE a \o b

\* np.concatenate(blocks)
RECURSIVE Concatenate(_)
Concatenate(blocks) ==
    IF blocks = <<>> THEN <<>>
    ELSE Join(blocks[1], Concatenate(Tail(blocks)))

\* a * s < b * n for s >= 0, n > 0, without leaving 32 bits
LessProd(a, s, b, n) ==
    LET q == s \div n
        r == s % n
        k == b - a * q
    IN  IF k <= 0 THEN FALSE
        ELSE IF k >= a THEN TRUE
        ELSE a * r < k * n

\* np.sqrt(np.mean(audio ** 2)) < t / 1000, for t a multiple of 5:
\* sum / (n * 2^20) < t^2 / 10^6, i.e. 625 * sum < (t^2 / 25) * 2^14 * n.
\* The mean of an empty array is nan, and nan < x is False.
RmsBelow(audio, t) ==
    LET n == NumSamples(audio)
    IN  IF n = 0 THEN FALSE
        ELSE LessProd(625, SumSquares(audio), ((t * t) \div 25) * 16384, n)

(***************************************************************************)
(* Bounds and inputs                                                       *)
(***************************************************************************)
NumConns == 2              \* connections the server accepts
MaxFrames == 2             \* binary frames handled under Spec
MaxTexts == 1              \* text frames handled under Spec
MaxSegFrames == 4          \* binary frames handled under SpecSeg
MaxCmds == 2               \* text frames handled under SpecCmd
MaxFails == 2              \* connection attempts of the client that fail
MaxLosses == 1             \* sessions of the client that are lost
MaxBlocks == 2             \* blocks the capture thread of the client produces
MaxMsgs == 1               \* results the server sends the client
MaxReads == 2              \* reads of the audio device that return
MaxStops == 1              \* calls of AudioCapture.stop() by each caller
MaxCalls == 4              \* calls of load() and unload() on the engines
MaxAudio == 2              \* samples of an array given to resample_audio

Conns == 1..NumConns

\* TranscriptionServer.__init__
sample_rate == 16000
min_seconds == 2
max_seconds == 10
min_duration == FDiv(min_seconds, 1)
max_duration == FDiv(max_seconds, 1)
\* _is_silence: threshold 0.01 (in thousandths), window of 4000 samples
silence_threshold == 10
silence_window == 4000
\* Transcriber.transcribe: "too quiet" threshold 0.005 (in thousandths)
quiet_threshold == 5

None == "None"

\* Binary frames: the int16 samples of the payload, and whether a stray
\* odd byte follows them.
Pcm(audio) == [audio |-> audio, odd |-> FALSE]
Loud == 2048 \div 32       \* sample 2048 / 32768 = 0.0625
Soft == 256 \div 32        \* sample 256 / 32768 = 0.0078: under 0.01, over 0.005

Frames ==
    { Pcm(<< <<16000, Loud>> >>),                   \* 1 s of speech
      Pcm(<< <<16000, 0>> >>),                      \* 1 s of silence
      Pcm(<< <<28000, Loud>>, <<4000, 0>> >>) }     \* 2 s, silent tail

\* the frames of SpecSeg
SegFrames ==
    { Pcm(<< <<3200, Loud>> >>),                    \* 0.2 s, under the window
      Pcm(<< <<153600, Loud>> >>),                  \* 9.6 s
      Pcm(<< <<16000, 0>> >>),                      \* 1 s of silence
      Pcm(<< <<24000, Loud>>, <<8000, Soft>> >>),   \* 2 s, soft tail
      Pcm(<<>>) }                                   \* no sample at all

\* Text frames: text that is not JSON, JSON that is not an object, or a JSON
\* object given as the set of its <<key, value>> members.
NotJson == [json |-> "invalid", data |-> {}]
NotObject == [json |-> "array", data |-> {}]
Object(d) == [json |-> "object", data |-> d]

TextFrames ==
    { NotJson, NotObject,
      Object({<<"type", "ping">>}),
      Object({<<"type", "result">>}),
      Object({<<"target_language", "DE">>}),
      Object({<<"type", "set_config">>, <<"target_language", "DE">>}),
      Object({<<"type", "set_config">>, <<"translation_provider", "bing">>,
              <<"target_language", "DE">>}),
      Object({<<"type", "set_config">>, <<"translation_provider", "local">>}),
      Object({<<"type", "set_config">>, <<"translation_provider", "deepl">>}) }

\* the set_config frames
SetConfigs ==
    {m \in TextFrames :
        m.json = "object" /\ <<"type", "set_config">> \in m.data}

\* the text frames of Spec
Texts ==
    { NotObject,
      Object({<<"type", "ping">>}),
      Object({<<"type", "set_config">>, <<"target_language", "DE">>}) }

\* the ping command
Ping == Object({<<"type", "ping">>})

\* a binary frame of 2 s of speech that ends in silence, and one without
\* samples
Utterance == Pcm(<< <<28000, Loud>>, <<4000, 0>> >>)
NoSamples == Pcm(<<>>)

\* what the engine finds in a segment that is not too quiet: no speech, or
\* the joined text of its parts
EngineTexts == {"", "hello"}

\* providers whose translator can be constructed in this deployment
Usable == {"google", "local"}
\* the provider the server is started with: one that works, one whose
\* translator cannot be constructed, or none
InitProviders == {"google", "deepl", None}

(***************************************************************************)
(* State                                                                   *)
(***************************************************************************)
VARIABLES
    audio_buffer,          \* self._audio_buffer: the blocks not yet flushed
    buffer_duration,       \* self._buffer_duration (binary64)
    clients,               \* self._clients
    translator,            \* self.translator: the provider it is, or None
    translation_provider,  \* self.translation_provider
    target_language,       \* self.target_language
    source_language,       \* self.source_language
    pc,                    \* where the handler of each connection is
    open,                  \* whether the transport of each connection is up
    work,                  \* locals of _process_buffer, per handler
    sent,                  \* frames sent to each connection, in order
    buffer_from,           \* history: the connection each buffered block came from
    inbound,               \* history: the frames handled, in order
    segments,              \* history: the segments flushed, in order, and
                           \* what became of each
    client,                \* the VoiceClient: its fields, where its run()
                           \* coroutine is, the _send_audio calls scheduled
                           \* on its loop, whether its capture thread runs
    cenv,                  \* around the client: the state of its connection,
                           \* the frames it has not read yet, and the history
                           \* of its attempts, waits, blocks and sends
    lifecycle,             \* where TranscriptionServer.start() is
    engines,               \* the transcription engines: self._model of each,
                           \* the temporary directory of the Parakeet engine,
                           \* and the history of their loads and releases
    probe,                 \* the last direct call of a function of the
                           \* program: its arguments and what it returned
    audio_capture          \* the AudioCapture: its fields, the audio devices
                           \* of the machine, where its capture thread and
                           \* the callers of stop() are, and what the thread
                           \* has read, delivered and reported

vars == <<audio_buffer, buffer_duration, clients, translator,
          translation_provider, target_language, source_language,
          pc, open, work, sent, buffer_from, inbound, segments,
          client, cenv, lifecycle, engines, probe, audio_capture>>

server_vars == <<audio_buffer, buffer_duration, clients, translator,
                 translation_provider, target_language, source_language,
                 pc, open, work, sent, buffer_from, inbound, segments>>
client_vars == <<client, cenv>>
host_vars == <<lifecycle, engines, probe, audio_capture>>

\* what the handlers of the server leave alone, and what the client does
outside_handlers == <<client_vars, host_vars>>
outside_client == <<server_vars, host_vars>>

segmenter == <<audio_buffer, buffer_duration, buffer_from>>
config == <<translator, translation_provider, target_language, source_language>>

NoWork == [full_audio |-> <<>>, segment |-> 0, text |-> "",
           translator |-> None, target |-> ""]

\* a frame on the wire from the server; segment and re are history: the
\* segment a result is for, the inbound frame an error or pong answers
Frame(type, original, translated, segment, re) ==
    [type |-> type, original |-> original, translated |-> translated,
     segment |-> segment, re |-> re]

\* create_translator(provider): the translator, or "raise"
create_translator(provider) ==
    IF provider \in {"deepl", "google", "local"}
    THEN IF provider \in Usable THEN provider ELSE "raise"
    ELSE IF provider = "none" \/ provider = None THEN None
    ELSE "raise"

\* create_transcriber(engine): the transcriber, or "raise"
create_transcriber(engine) ==
    IF engine \in {"whisper", "parakeet"} THEN engine ELSE "raise"

\* Translator.translate(text, target_lang, source_lang) when it succeeds.
\* Translated text is a sequence: <<>> is the empty string.
translate(tr, text, target) == <<tr, target, text>>

\* VoiceClient.RECONNECT_DELAY, and the pause of run() before it reconnects
RECONNECT_DELAY == 3
RECONNECT_PAUSE == 1

\* an entry of the history of the attempts
Event(ev, n) == [ev |-> ev, n |-> n]

\* The client once run() has reached its first await: _running is set, the
\* capture thread is started, the first connection attempt is under way.
InitClient ==
    /\ client = [running |-> TRUE, connected |-> FALSE, ws |-> 0,
                 pc |-> "connecting", attempt |-> 1, scheduled |-> <<>>,
                 capture |-> TRUE, close_scheduled |-> FALSE]
    /\ cenv = [link |-> "none", inbox |-> <<>>, greeted |-> FALSE,
               sessions |-> 0, fails |-> 0, losses |-> 0, msgs |-> 0,
               send_failed |-> FALSE,
               log |-> <<Event("attempt", 1)>>, blocks |-> <<>>,
               wire |-> <<>>]

\* the engine classes: Transcriber of server/transcriber.py, which the
\* server constructs, and the two of server/transcribers
EngineClasses == {"Transcriber", "WhisperTranscriber", "ParakeetTranscriber"}

\* an engine as its constructor leaves it: no model; the Parakeet engine
\* has made its temporary directory
NewEngine(e) == [model |-> FALSE, temp_dir |-> (e = "ParakeetTranscriber"),
                 loads |-> 0, releases |-> 0]

\* load(): nothing when the model is there; else the model is constructed,
\* which succeeds (ok) or raises and leaves the engine as it was
load(eng, ok) ==
    IF eng.model THEN eng
    ELSE IF ok THEN [eng EXCEPT !.model = TRUE, !.loads = @ + 1]
    ELSE eng
load_raises(eng, ok) == ~eng.model /\ ~ok

\* unload(): the model, when there is one, is released; the Parakeet engine
\* then removes its temporary directory, model or not
unload(e, eng) ==
    LET released == IF eng.model
                    THEN [eng EXCEPT !.model = FALSE, !.releases = @ + 1]
                    ELSE eng
    IN  IF e = "ParakeetTranscriber"
        THEN [released EXCEPT !.temp_dir = FALSE]
        ELSE released

InitHost ==
    /\ lifecycle = "constructed"
    /\ engines = [e \in EngineClasses |-> NewEngine(e)]
    /\ probe = [fn |-> "none"]

\* The audio devices of a machine: the names of its host APIs, and for each
\* device its host API, whether it is a loopback device, and its name.
\* Names are sequences of characters.
Device(hostApi, loopback, name) ==
    [hostApi |-> hostApi, isLoopbackDevice |-> loopback, name |-> name]

WASAPI == "Windows WASAPI"
Machine ==
    [host_apis |-> <<"MME", WASAPI>>,
     devices |-> << Device(1, TRUE, <<"M", "i", "c">>),
                    Device(2, FALSE, <<"S", "p", "k">>),
                    Device(2, TRUE, <<"S", "p", "k">>),
                    Device(2, TRUE, <<"H", "d", "m", "i">>) >>]
NoWasapi == [Machine EXCEPT !.host_apis = <<"MME">>]
NoLoopback == [Machine EXCEPT !.devices = SubSeq(@, 1, 2)]

\* device_name: no filter, the empty filter, one that matches the fourth
\* device but for the case, one that matches none
NoName == [none |-> TRUE, chars |-> <<>>]
Name(chars) == [none |-> FALSE, chars |-> chars]
DeviceNames == {NoName, Name(<<>>), Name(<<"h", "D">>), Name(<<"z">>)}

Setups ==
    {[machine |-> Machine, device_name |-> n] : n \in DeviceNames}
    \cup {[machine |-> m, device_name |-> NoName] : m \in {NoWasapi, NoLoopback}}

\* the callers of AudioCapture.stop(): VoiceClient.stop() on the thread of
\* the owner, and the cleanup at the end of VoiceClient.run()
Stoppers == {"stop", "run"}

\* AudioCapture.__init__ on a machine, with a device name
NewCapture(setup) ==
    [setup |-> setup, running |-> FALSE, thread |-> None,
     started |-> FALSE, pa |-> FALSE, stream |-> "none",
     device |-> 0, th |-> "none",
     stopper |-> [s \in Stoppers |-> [pc |-> "idle", calls |-> 0]],
     reads |-> 0, callbacks |-> 0, errors |-> 0, sleeps |-> 0,
     reports |-> 0, timeouts |-> 0]

\* the capture as VoiceClient.run() constructs it by default
InitCapture ==
    audio_capture = NewCapture([machine |-> Machine, device_name |-> NoName])

InitServer ==
    /\ audio_buffer = <<>>
    /\ buffer_duration = FZero
    /\ clients = {}
    /\ translation_provider \in InitProviders
    /\ translator = IF translation_provider # None
                       /\ create_translator(translation_provider) # "raise"
                    THEN create_translator(translation_provider)
                    ELSE None
    /\ target_language = "RU"
    /\ source_language = "en"
    /\ pc = [c \in Conns |-> "idle"]
    /\ open = [c \in Conns |-> FALSE]
    /\ work = [c \in Conns |-> NoWork]
    /\ sent = [c \in Conns |-> <<>>]
    /\ buffer_from = <<>>
    /\ inbound = <<>>
    /\ segments = <<>>

Init ==
    /\ InitClient
    /\ InitHost
    /\ InitCapture
    /\ InitServer

(***************************************************************************)
(* src/server/main.py                                                      *)
(***************************************************************************)
AudioHandled == Cardinality({i \in DOMAIN inbound : inbound[i].kind = "audio"})
TextHandled == Cardinality({i \in DOMAIN inbound : inbound[i].kind = "text"})

\* _is_silence with the RMS of the whole chunk, not of its last 0.25 s
is_silence_whole(audio) ==
    RmsBelow(audio, silence_threshold)

\* _is_silence(audio)
is_silence(audio) ==
    LET check_samples == Min(NumSamples(audio), silence_window)
    IN  RmsBelow(LastSamples(audio, check_samples), silence_threshold)

\* should_process without the minimum duration
should_process_nofloor(duration, audio) ==
    FGeq(duration, max_duration) \/ is_silence(audio)

\* should_process in _handle_audio, from the duration after the append
should_process(duration, audio) ==
    /\ FGeq(duration, min_duration)
    /\ (FGeq(duration, max_duration) \/ is_silence(audio))

\* the handler of c ends: finally discards the connection, and the library
\* closes the transport of a handler that has returned
EndHandler(c) ==
    /\ pc' = [pc EXCEPT ![c] = "ended"]
    /\ clients' = clients \ {c}
    /\ open' = [open EXCEPT ![c] = FALSE]
    /\ work' = [work EXCEPT ![c] = NoWork]

\* send that puts the frame ahead of the frames already sent
SendFrame_ahead(c, frame) ==
    IF open[c]
    THEN /\ sent' = [sent EXCEPT ![c] = <<frame>> \o @]
         /\ pc' = [pc EXCEPT ![c] = "recv"]
         /\ work' = [work EXCEPT ![c] = NoWork]
         /\ UNCHANGED <<clients, open>>
    ELSE /\ EndHandler(c)
         /\ UNCHANGED sent

\* await websocket.send(frame) inside the try block of _handle_client, then
\* back to the receive loop; ConnectionClosed ends the handler
SendFrame(c, frame) ==
    IF open[c]
    THEN /\ sent' = [sent EXCEPT ![c] = Append(@, frame)]
         /\ pc' = [pc EXCEPT ![c] = "recv"]
         /\ work' = [work EXCEPT ![c] = NoWork]
         /\ UNCHANGED <<clients, open>>
    ELSE /\ EndHandler(c)
         /\ UNCHANGED sent

\* start() that serves whether or not the model was loaded
Start_anyway(ok) ==
    /\ lifecycle = "constructed"
    /\ engines' = [engines EXCEPT !["Transcriber"] = load(@, ok)]
    /\ lifecycle' = "listening"
    /\ UNCHANGED <<server_vars, client_vars, probe, audio_capture>>

\* start(): the model is loaded, then the server listens and runs forever;
\* a load() that raises ends start() before websockets.serve is reached
Start(ok) ==
    /\ lifecycle = "constructed"
    /\ engines' = [engines EXCEPT !["Transcriber"] = load(@, ok)]
    /\ lifecycle' = IF load_raises(engines["Transcriber"], ok)
                    THEN "failed" ELSE "listening"
    /\ UNCHANGED <<server_vars, client_vars, probe, audio_capture>>

\* _handle_client up to the first await: the connection is registered
Connect(c) ==
    /\ lifecycle = "listening"
    /\ pc[c] = "idle"
    /\ clients' = clients \cup {c}
    /\ open' = [open EXCEPT ![c] = TRUE]
    /\ pc' = [pc EXCEPT ![c] = "status"]
    /\ UNCHANGED <<segmenter, segments, config, work, sent, inbound>>

\* the ready status is sent; this send is outside the try block, so a closed
\* transport ends the handler without the finally clause
SendStatus(c) ==
    /\ pc[c] = "status"
    /\ IF open[c]
       THEN /\ sent' = [sent EXCEPT ![c] =
                           Append(@, Frame("status", "", <<>>, 0, 0))]
            /\ pc' = [pc EXCEPT ![c] = "recv"]
       ELSE /\ pc' = [pc EXCEPT ![c] = "ended"]
            /\ UNCHANGED sent
    /\ UNCHANGED <<segmenter, segments, config, clients, open, work, inbound>>

\* the peer closes the connection (or the transport fails)
ClientClose(c) ==
    /\ pc[c] \notin {"idle", "ended"}
    /\ open[c]
    /\ open' = [open EXCEPT ![c] = FALSE]
    /\ UNCHANGED <<segmenter, segments, config, clients, pc, work, sent,
                   inbound>>

\* the receive loop sees the closed connection: async for ends
HandlerExit(c) ==
    /\ pc[c] = "recv"
    /\ ~open[c]
    /\ EndHandler(c)
    /\ UNCHANGED <<segmenter, segments, config, sent, inbound>>

\* _process_buffer that takes the buffer without resetting it
process_buffer_keep(c, buffer, from, duration) ==
    IF buffer = <<>>
    THEN /\ audio_buffer' = buffer
         /\ buffer_duration' = duration
         /\ buffer_from' = from
         /\ UNCHANGED <<segments, pc, work>>
    ELSE LET full_audio == Concatenate(buffer)
         IN  /\ audio_buffer' = buffer
             /\ buffer_duration' = FZero
             /\ buffer_from' = from
             /\ segments' = Append(segments,
                    [at |-> Len(inbound) + 1, by |-> c,
                     audio |-> full_audio, from |-> from,
                     engine |-> "pending", result |-> "pending",
                     translation |-> "pending"])
             /\ work' = [work EXCEPT ![c] =
                    [NoWork EXCEPT !.full_audio = full_audio,
                                   !.segment = Len(segments) + 1]]
             /\ pc' = [pc EXCEPT ![c] = "transcribe"]

\* _process_buffer that takes the buffer and leaves the duration as it was
process_buffer_stale(c, buffer, from, duration) ==
    IF buffer = <<>>
    THEN /\ audio_buffer' = buffer
         /\ buffer_duration' = duration
         /\ buffer_from' = from
         /\ UNCHANGED <<segments, pc, work>>
    ELSE LET full_audio == Concatenate(buffer)
         IN  /\ audio_buffer' = <<>>
             /\ buffer_duration' = duration
             /\ buffer_from' = <<>>
             /\ segments' = Append(segments,
                    [at |-> Len(inbound) + 1, by |-> c,
                     audio |-> full_audio, from |-> from,
                     engine |-> "pending", result |-> "pending",
                     translation |-> "pending"])
             /\ work' = [work EXCEPT ![c] =
                    [NoWork EXCEPT !.full_audio = full_audio,
                                   !.segment = Len(segments) + 1]]
             /\ pc' = [pc EXCEPT ![c] = "transcribe"]

\* _process_buffer(websocket) up to its first await, on the buffer as
\* _handle_audio has just left it: the buffer is taken and reset, and the
\* segment goes to the executor
process_buffer(c, buffer, from, duration) ==
    IF buffer = <<>>
    THEN /\ audio_buffer' = buffer
         /\ buffer_duration' = duration
         /\ buffer_from' = from
         /\ UNCHANGED <<segments, pc, work>>
    ELSE LET full_audio == Concatenate(buffer)
         IN  /\ audio_buffer' = <<>>
             /\ buffer_duration' = FZero
             /\ buffer_from' = <<>>
             /\ segments' = Append(segments,
                    [at |-> Len(inbound) + 1, by |-> c,
                     audio |-> full_audio, from |-> from,
                     engine |-> "pending", result |-> "pending",
                     translation |-> "pending"])
             /\ work' = [work EXCEPT ![c] =
                    [NoWork EXCEPT !.full_audio = full_audio,
                                   !.segment = Len(segments) + 1]]
             /\ pc' = [pc EXCEPT ![c] = "transcribe"]

\* _handle_audio when the inference runs on the event loop: no handler runs
\* while one is in an inference
HandleAudio_onloop(c, data) ==
    /\ pc[c] = "recv"
    /\ open[c]
    /\ \A d \in Conns : pc[d] \notin {"transcribe", "translate"}
    /\ inbound' = Append(inbound, [conn |-> c, kind |-> "audio", frame |-> data])
    /\ LET audio    == data.audio
           buffer   == Append(audio_buffer, audio)
           from     == Append(buffer_from, c)
           duration == FAdd(buffer_duration,
                            FDiv(NumSamples(audio), sample_rate))
       IN  /\ IF should_process(duration, audio)
              THEN process_buffer(c, buffer, from, duration)
              ELSE /\ audio_buffer' = buffer
                   /\ buffer_duration' = duration
                   /\ buffer_from' = from
                   /\ UNCHANGED <<segments, pc, work>>
           /\ UNCHANGED <<config, clients, open, sent>>

\* _handle_audio(websocket, data)
HandleAudio(c, data) ==
    /\ pc[c] = "recv"
    /\ open[c]
    /\ inbound' = Append(inbound, [conn |-> c, kind |-> "audio", frame |-> data])
    /\ IF data.odd
       THEN \* np.frombuffer raises ValueError
            /\ EndHandler(c)
            /\ UNCHANGED <<segmenter, segments, config, sent>>
       ELSE LET audio    == data.audio
                buffer   == Append(audio_buffer, audio)
                from     == Append(buffer_from, c)
                duration == FAdd(buffer_duration,
                                 FDiv(NumSamples(audio), sample_rate))
            IN  /\ IF should_process(duration, audio)
                   THEN process_buffer(c, buffer, from, duration)
                   ELSE /\ audio_buffer' = buffer
                        /\ buffer_duration' = duration
                        /\ buffer_from' = from
                        /\ UNCHANGED <<segments, pc, work>>
                /\ UNCHANGED <<config, clients, open, sent>>

\* transcribe without the check of the RMS before the engine
transcribe_always(audio) ==
    {[engine |-> "yes", result |-> r] : r \in {None} \cup EngineTexts}

\* Transcriber.transcribe(audio): the possible returns, None or the text of
\* the result, each with whether the model was run
transcribe(audio) ==
    IF RmsBelow(audio, quiet_threshold)
    THEN {[engine |-> "no", result |-> None]}
    ELSE {[engine |-> "yes", result |-> r] : r \in {None} \cup EngineTexts}

Outcomes == UNION {transcribe(f.audio) : f \in Frames \cup SegFrames}

\* run_in_executor(transcribe) returns; _process_buffer goes on to the
\* translation or, without one, to the result frame
TranscribeReturn(c, out) ==
    /\ pc[c] = "transcribe"
    /\ out \in transcribe(work[c].full_audio)
    /\ LET result == out.result
           seg    == work[c].segment
       IN
       IF result = None
       THEN /\ pc' = [pc EXCEPT ![c] = "recv"]
            /\ work' = [work EXCEPT ![c] = NoWork]
            /\ segments' = [segments EXCEPT ![seg].engine = out.engine,
                                            ![seg].result = None,
                                            ![seg].translation = "skipped"]
            /\ UNCHANGED <<clients, open, sent>>
       ELSE IF translator # None /\ result # ""
       THEN /\ pc' = [pc EXCEPT ![c] = "translate"]
            /\ work' = [work EXCEPT ![c].text = result,
                                    ![c].translator = translator,
                                    ![c].target = target_language]
            /\ segments' = [segments EXCEPT ![seg].engine = out.engine,
                                            ![seg].result = result]
            /\ UNCHANGED <<clients, open, sent>>
       ELSE /\ SendFrame(c, Frame("result", result, <<>>, seg, 0))
            /\ segments' = [segments EXCEPT ![seg].engine = out.engine,
                                            ![seg].result = result,
                                            ![seg].translation = "skipped"]
    /\ UNCHANGED <<segmenter, config, inbound>>

\* the engine raises inside transcribe: nothing in _process_buffer,
\* _handle_audio or _handle_client catches it
TranscribeRaise(c) ==
    /\ pc[c] = "transcribe"
    /\ ~RmsBelow(work[c].full_audio, quiet_threshold)
    /\ EndHandler(c)
    /\ segments' = [segments EXCEPT ![work[c].segment].engine = "yes",
                                    ![work[c].segment].result = "raise",
                                    ![work[c].segment].translation = "skipped"]
    /\ UNCHANGED <<segmenter, config, sent, inbound>>

\* _process_buffer that gives up on the segment when the translation raises
TranslateReturn_drop(c, ok) ==
    /\ pc[c] = "translate"
    /\ LET w == work[c]
       IN  /\ IF ok
              THEN SendFrame(c, Frame("result", w.text,
                                      translate(w.translator, w.text, w.target),
                                      w.segment, 0))
              ELSE /\ pc' = [pc EXCEPT ![c] = "recv"]
                   /\ work' = [work EXCEPT ![c] = NoWork]
                   /\ UNCHANGED <<clients, open, sent>>
           /\ segments' = [segments EXCEPT ![w.segment].translation =
                              IF ok THEN "ok" ELSE "raise"]
    /\ UNCHANGED <<segmenter, config, inbound>>

\* run_in_executor(translate) returns or raises; the result frame is sent
TranslateReturn(c, ok) ==
    /\ pc[c] = "translate"
    /\ LET w          == work[c]
           translated == IF ok THEN translate(w.translator, w.text, w.target)
                         ELSE <<>>
       IN  /\ SendFrame(c, Frame("result", w.text, translated, w.segment, 0))
           /\ segments' = [segments EXCEPT ![w.segment].translation =
                              IF ok THEN "ok" ELSE "raise"]
    /\ UNCHANGED <<segmenter, config, inbound>>

Has(data, key) == \E m \in data : m[1] = key
Get(data, key) == IF Has(data, key) THEN (CHOOSE m \in data : m[1] = key)[2]
                  ELSE None

\* _handle_command that takes every setting from the frame, named or not
HandleCommand_every(c, message) ==
    /\ pc[c] = "recv"
    /\ open[c]
    /\ inbound' = Append(inbound, [conn |-> c, kind |-> "text", frame |-> message])
    /\ LET re == Len(inbound) + 1
           error == Frame("error", "", <<>>, 0, re)
       IN
       IF message.json = "invalid"
       THEN \* json.JSONDecodeError
            /\ sent' = [sent EXCEPT ![c] = Append(@, error)]
            /\ UNCHANGED <<config, clients, open, pc, work>>
       ELSE IF message.json # "object"
       THEN \* data.get raises AttributeError, which nothing catches
            /\ EndHandler(c)
            /\ UNCHANGED <<config, sent>>
       ELSE LET data     == message.data
                msg_type == Get(data, "type")
            IN  IF msg_type = "ping"
                THEN /\ sent' = [sent EXCEPT ![c] =
                                    Append(@, Frame("pong", "", <<>>, 0, re))]
                     /\ UNCHANGED <<config, clients, open, pc, work>>
                ELSE IF msg_type = "set_config"
                THEN LET provider == Get(data, "translation_provider")
                         switch   == /\ Has(data, "translation_provider")
                                     /\ provider # translation_provider
                         created  == IF provider # None /\ provider # ""
                                     THEN create_translator(provider)
                                     ELSE None
                     IN  /\ IF switch /\ created # "raise"
                            THEN /\ translator' = created
                                 /\ translation_provider' = provider
                            ELSE UNCHANGED <<translator, translation_provider>>
                         /\ IF switch /\ created = "raise"
                            THEN sent' = [sent EXCEPT ![c] = Append(@, error)]
                            ELSE UNCHANGED sent
                         /\ target_language' = Get(data, "target_language")
                         /\ source_language' = Get(data, "source_language")
                         /\ UNCHANGED <<clients, open, pc, work>>
                ELSE UNCHANGED <<config, clients, open, pc, work, sent>>
    /\ UNCHANGED <<segmenter, segments>>

\* _handle_command(websocket, message)
HandleCommand(c, message) ==
    /\ pc[c] = "recv"
    /\ open[c]
    /\ inbound' = Append(inbound, [conn |-> c, kind |-> "text", frame |-> message])
    /\ LET re == Len(inbound) + 1
           error == Frame("error", "", <<>>, 0, re)
       IN
       IF message.json = "invalid"
       THEN \* json.JSONDecodeError
            /\ sent' = [sent EXCEPT ![c] = Append(@, error)]
            /\ UNCHANGED <<config, clients, open, pc, work>>
       ELSE IF message.json # "object"
       THEN \* data.get raises AttributeError, which nothing catches
            /\ EndHandler(c)
            /\ UNCHANGED <<config, sent>>
       ELSE LET data     == message.data
                msg_type == Get(data, "type")
            IN  IF msg_type = "ping"
                THEN /\ sent' = [sent EXCEPT ![c] =
                                    Append(@, Frame("pong", "", <<>>, 0, re))]
                     /\ UNCHANGED <<config, clients, open, pc, work>>
                ELSE IF msg_type = "set_config"
                THEN LET provider == Get(data, "translation_provider")
                         switch   == /\ Has(data, "translation_provider")
                                     /\ provider # translation_provider
                         created  == IF provider # None /\ provider # ""
                                     THEN create_translator(provider)
                                     ELSE None
                     IN  /\ IF switch /\ created # "raise"
                            THEN /\ translator' = created
                                 /\ translation_provider' = provider
                            ELSE UNCHANGED <<translator, translation_provider>>
                         /\ IF switch /\ created = "raise"
                            THEN sent' = [sent EXCEPT ![c] = Append(@, error)]
                            ELSE UNCHANGED sent
                         /\ target_language' =
                              IF Has(data, "target_language")
                              THEN Get(data, "target_language")
                              ELSE target_language
                         /\ source_language' =
                              IF Has(data, "source_language")
                              THEN Get(data, "source_language")
                              ELSE source_language
                         /\ UNCHANGED <<clients, open, pc, work>>
                ELSE UNCHANGED <<config, clients, open, pc, work, sent>>
    /\ UNCHANGED <<segmenter, segments>>

\* The server with every connection, a few frames of each kind
Next ==
    \/ \E ok \in BOOLEAN : Start(ok)
    \/ /\ \E c \in Conns : Connect(c)
       /\ UNCHANGED outside_handlers
    \/ /\ \E c \in Conns : SendStatus(c)
       /\ UNCHANGED outside_handlers
    \/ /\ \E c \in Conns : ClientClose(c)
       /\ UNCHANGED outside_handlers
    \/ /\ \E c \in Conns : HandlerExit(c)
       /\ UNCHANGED outside_handlers
    \/ /\ \E c \in Conns, data \in Frames :
             AudioHandled < MaxFrames /\ HandleAudio(c, data)
       /\ UNCHANGED outside_handlers
    \/ /\ \E c \in Conns, message \in Texts :
             TextHandled < MaxTexts /\ HandleCommand(c, message)
       /\ UNCHANGED outside_handlers
    \/ /\ \E c \in Conns, out \in Outcomes : TranscribeReturn(c, out)
       /\ UNCHANGED outside_handlers
    \/ /\ \E c \in Conns : TranscribeRaise(c)
       /\ UNCHANGED outside_handlers
    \/ /\ \E c \in Conns, ok \in BOOLEAN : TranslateReturn(c, ok)
       /\ UNCHANGED outside_handlers

Spec == Init /\ [][Next]_vars

\* the server started with a translator
InitSeg == Init /\ translation_provider = "google"

\* Every connection, binary frames only: the sessions side by side
NextAudio ==
    \/ \E ok \in BOOLEAN : Start(ok)
    \/ /\ \E c \in Conns : Connect(c)
       /\ UNCHANGED outside_handlers
    \/ /\ \E c \in Conns : SendStatus(c)
       /\ UNCHANGED outside_handlers
    \/ /\ \E c \in Conns : ClientClose(c)
       /\ UNCHANGED outside_handlers
    \/ /\ \E c \in Conns : HandlerExit(c)
       /\ UNCHANGED outside_handlers
    \/ /\ \E c \in Conns, data \in Frames :
             AudioHandled < MaxFrames /\ HandleAudio(c, data)
       /\ UNCHANGED outside_handlers
    \/ /\ \E c \in Conns, out \in Outcomes : TranscribeReturn(c, out)
       /\ UNCHANGED outside_handlers
    \/ /\ \E c \in Conns : TranscribeRaise(c)
       /\ UNCHANGED outside_handlers
    \/ /\ \E c \in Conns, ok \in BOOLEAN : TranslateReturn(c, ok)
       /\ UNCHANGED outside_handlers

SpecAudio == InitSeg /\ [][NextAudio]_vars

\* Every connection, utterances and pings, no connection lost: what the
\* handlers can do while an inference is running
NextLive ==
    \/ \E ok \in BOOLEAN : Start(ok)
    \/ /\ \E c \in Conns : Connect(c)
       /\ UNCHANGED outside_handlers
    \/ /\ \E c \in Conns : SendStatus(c)
       /\ UNCHANGED outside_handlers
    \/ /\ \E c \in Conns : AudioHandled < MaxFrames /\ HandleAudio(c, Utterance)
       /\ UNCHANGED outside_handlers
    \/ /\ \E c \in Conns : TextHandled < MaxTexts /\ HandleCommand(c, Ping)
       /\ UNCHANGED outside_handlers
    \/ /\ \E c \in Conns, out \in Outcomes : TranscribeReturn(c, out)
       /\ UNCHANGED outside_handlers
    \/ /\ \E c \in Conns, ok \in BOOLEAN : TranslateReturn(c, ok)
       /\ UNCHANGED outside_handlers

SpecLive == InitSeg /\ [][NextLive]_vars

\* One session, with a translator, fed every kind of binary frame: the
\* flush policy
NextSeg ==
    \/ \E ok \in BOOLEAN : Start(ok)
    \/ /\ Connect(1)
       /\ UNCHANGED outside_handlers
    \/ /\ SendStatus(1)
       /\ UNCHANGED outside_handlers
    \/ /\ \E data \in SegFrames :
             AudioHandled < MaxSegFrames /\ HandleAudio(1, data)
       /\ UNCHANGED outside_handlers
    \/ /\ \E out \in Outcomes : TranscribeReturn(1, out)
       /\ UNCHANGED outside_handlers
    \/ /\ \E ok \in BOOLEAN : TranslateReturn(1, ok)
       /\ UNCHANGED outside_handlers

SpecSeg == InitSeg /\ [][NextSeg]_vars

\* One session fed every kind of text frame: the command handler
NextCmd ==
    \/ \E ok \in BOOLEAN : Start(ok)
    \/ /\ Connect(1)
       /\ UNCHANGED outside_handlers
    \/ /\ SendStatus(1)
       /\ UNCHANGED outside_handlers
    \/ /\ ClientClose(1)
       /\ UNCHANGED outside_handlers
    \/ /\ HandlerExit(1)
       /\ UNCHANGED outside_handlers
    \/ /\ \E message \in TextFrames :
             TextHandled < MaxCmds /\ HandleCommand(1, message)
       /\ UNCHANGED outside_handlers

SpecCmd == Init /\ [][NextCmd]_vars

\* One session fed binary frames and set_config frames: the settings and
\* the buffer
NextConfig ==
    \/ \E ok \in BOOLEAN : Start(ok)
    \/ /\ Connect(1)
       /\ UNCHANGED outside_handlers
    \/ /\ SendStatus(1)
       /\ UNCHANGED outside_handlers
    \/ /\ \E data \in Frames : AudioHandled < MaxFrames /\ HandleAudio(1, data)
       /\ UNCHANGED outside_handlers
    \/ /\ \E message \in SetConfigs :
             TextHandled < MaxCmds /\ HandleCommand(1, message)
       /\ UNCHANGED outside_handlers
    \/ /\ \E out \in Outcomes : TranscribeReturn(1, out)
       /\ UNCHANGED outside_handlers
    \/ /\ \E ok \in BOOLEAN : TranslateReturn(1, ok)
       /\ UNCHANGED outside_handlers

SpecConfig == Init /\ [][NextConfig]_vars

(***************************************************************************)
(* The client: VoiceClient of src/client/main.py                           *)
(*                                                                         *)
(* run() is one coroutine on the event loop, and client.pc is the await it *)
(* is suspended at.  The capture thread calls _on_audio for each block;    *)
(* the _send_audio calls it schedules run on the loop in the order they    *)
(* were scheduled.  stop() is called by the owner from another thread.     *)
(* The connection is the environment's: an attempt fails or succeeds, an   *)
(* established connection is closed or breaks, the server greets with a    *)
(* status frame and sends further frames.                                  *)
(***************************************************************************)
Closes == {"closed", "error"}   \* a normal close, a transport error

\* Cleanup of run(), after its loop: the capture is stopped.
RunReturns(cl) == [cl EXCEPT !.pc = "done", !.capture = FALSE]

\* the variant of ConnectReturn whose delay grows with the attempts
ConnectReturn_backoff(ok) ==
    /\ client.pc = "connecting"
    /\ IF ok
       THEN /\ client' = [client EXCEPT !.ws = cenv.sessions + 1,
                                        !.connected = TRUE,
                                        !.pc = "receiving"]
            /\ cenv' = [cenv EXCEPT !.link = "up", !.inbox = <<>>,
                                    !.greeted = FALSE,
                                    !.send_failed = FALSE,
                                    !.sessions = @ + 1,
                                    !.log = Append(@, Event("ok", client.attempt))]
       ELSE /\ cenv.fails < MaxFails
            /\ client' = [client EXCEPT !.connected = FALSE,
                                        !.pc = "retry_wait"]
            /\ cenv' = [cenv EXCEPT !.fails = @ + 1,
                                    !.log = @ \o <<Event("fail", client.attempt),
                                                   Event("sleep", RECONNECT_DELAY * client.attempt)>>]
    /\ UNCHANGED outside_client

\* connect() returns, inside _connect_with_retry.  On success _ws and
\* _connected are set, whether or not stop() was called meanwhile, and
\* _receive_loop starts; on failure the client sleeps RECONNECT_DELAY.
ConnectReturn(ok) ==
    /\ client.pc = "connecting"
    /\ IF ok
       THEN /\ client' = [client EXCEPT !.ws = cenv.sessions + 1,
                                        !.connected = TRUE,
                                        !.pc = "receiving"]
            /\ cenv' = [cenv EXCEPT !.link = "up", !.inbox = <<>>,
                                    !.greeted = FALSE,
                                    !.send_failed = FALSE,
                                    !.sessions = @ + 1,
                                    !.log = Append(@, Event("ok", client.attempt))]
       ELSE /\ cenv.fails < MaxFails
            /\ client' = [client EXCEPT !.connected = FALSE,
                                        !.pc = "retry_wait"]
            /\ cenv' = [cenv EXCEPT !.fails = @ + 1,
                                    !.log = @ \o <<Event("fail", client.attempt),
                                                   Event("sleep", RECONNECT_DELAY)>>]
    /\ UNCHANGED outside_client

\* the variant of RetryWake that does not look at _running
RetryWake_blind ==
    /\ client.pc = "retry_wait"
    /\ client' = [client EXCEPT !.attempt = @ + 1, !.pc = "connecting"]
    /\ cenv' = [cenv EXCEPT !.log = Append(@, Event("attempt", client.attempt + 1))]
    /\ UNCHANGED outside_client

\* The sleep of _connect_with_retry ends: the next attempt while _running,
\* else _connect_with_retry returns False and run() leaves its loop.
RetryWake ==
    /\ client.pc = "retry_wait"
    /\ IF client.running
       THEN /\ client' = [client EXCEPT !.attempt = @ + 1,
                                        !.pc = "connecting"]
            /\ cenv' = [cenv EXCEPT !.log = Append(@, Event("attempt", client.attempt + 1))]
       ELSE /\ client' = RunReturns(client)
            /\ UNCHANGED cenv
    /\ UNCHANGED outside_client

\* _receive_loop gets a frame of the server.  Stopped, it returns False and
\* run() returns; else the frame is shown and the loop goes on.
Receive ==
    /\ client.pc = "receiving"
    /\ cenv.inbox # <<>>
    /\ cenv' = [cenv EXCEPT !.inbox = Tail(@)]
    /\ client' = IF ~client.running THEN RunReturns(client) ELSE client
    /\ UNCHANGED outside_client

\* the variant of ReceiveEnd that does not ask for a reconnect
ReceiveEnd_swallow ==
    /\ client.pc = "receiving"
    /\ cenv.inbox = <<>>
    /\ cenv.link \in Closes
    /\ client' = RunReturns([client EXCEPT !.connected = FALSE])
    /\ UNCHANGED cenv
    /\ UNCHANGED outside_client

\* The iteration over the connection ends, by a normal close or by an
\* exception: _connected is reset and _receive_loop returns True.  run()
\* then closes the old connection, or returns when stopped.
ReceiveEnd ==
    /\ client.pc = "receiving"
    /\ cenv.inbox = <<>>
    /\ cenv.link \in Closes
    /\ client' = IF client.running
                 THEN [client EXCEPT !.connected = FALSE, !.pc = "closing"]
                 ELSE RunReturns([client EXCEPT !.connected = FALSE])
    /\ UNCHANGED cenv
    /\ UNCHANGED outside_client

\* run(): the close of the old connection returns, _ws is reset and the
\* pause before the reconnect begins.
CloseReturn ==
    /\ client.pc = "closing"
    /\ client' = [client EXCEPT !.ws = 0, !.pc = "reconnect_wait"]
    /\ cenv' = [cenv EXCEPT !.link = "none", !.inbox = <<>>,
                            !.log = <<Event("sleep", RECONNECT_PAUSE)>>]
    /\ UNCHANGED outside_client

\* run(): the pause ends; while _running the next round of
\* _connect_with_retry makes its first attempt, else run() returns.
ReconnectWake ==
    /\ client.pc = "reconnect_wait"
    /\ IF client.running
       THEN /\ client' = [client EXCEPT !.attempt = 1, !.pc = "connecting"]
            /\ cenv' = [cenv EXCEPT !.log = Append(@, Event("attempt", 1))]
       ELSE /\ client' = RunReturns(client)
            /\ UNCHANGED cenv
    /\ UNCHANGED outside_client

\* the variant of _on_audio that schedules every block
OnAudio_always ==
    /\ client.capture
    /\ Len(cenv.blocks) < MaxBlocks
    /\ cenv' = [cenv EXCEPT !.blocks = Append(@, client.running /\ client.connected)]
    /\ client' = [client EXCEPT !.scheduled = Append(@, Len(cenv.blocks) + 1)]
    /\ UNCHANGED outside_client

\* _on_audio, called by the capture thread with its next block: a
\* _send_audio is scheduled on the loop while _running and _connected.
OnAudio ==
    /\ client.capture
    /\ Len(cenv.blocks) < MaxBlocks
    /\ cenv' = [cenv EXCEPT !.blocks = Append(@, client.running /\ client.connected)]
    /\ client' = IF client.running /\ client.connected
                 THEN [client EXCEPT !.scheduled = Append(@, Len(cenv.blocks) + 1)]
                 ELSE client
    /\ UNCHANGED outside_client

\* a frame on the wire: the block b, sent in the session s
Sent(b, s) == [block |-> b, session |-> s]

\* the variant of SendAudio that runs the call scheduled last
SendAudio_last ==
    /\ client.scheduled # <<>>
    /\ LET n == Len(client.scheduled)
           b == client.scheduled[n]
           cl == [client EXCEPT !.scheduled = SubSeq(@, 1, n - 1)]
       IN  IF client.ws # 0 /\ client.running /\ client.connected
           THEN IF cenv.link = "up"
                THEN /\ cenv' = [cenv EXCEPT !.wire = Append(@, Sent(b, client.ws))]
                     /\ client' = cl
                ELSE /\ cenv' = [cenv EXCEPT !.send_failed = TRUE]
                     /\ client' = [cl EXCEPT !.connected = FALSE]
           ELSE /\ client' = cl
                /\ UNCHANGED cenv
    /\ UNCHANGED outside_client

\* The loop runs the _send_audio scheduled first: the block is sent while
\* _ws, _running and _connected; a send that raises resets _connected.
SendAudio ==
    /\ client.scheduled # <<>>
    /\ LET b == Head(client.scheduled)
           cl == [client EXCEPT !.scheduled = Tail(@)]
       IN  IF client.ws # 0 /\ client.running /\ client.connected
           THEN IF cenv.link = "up"
                THEN /\ cenv' = [cenv EXCEPT !.wire = Append(@, Sent(b, client.ws))]
                     /\ client' = cl
                ELSE /\ cenv' = [cenv EXCEPT !.send_failed = TRUE]
                     /\ client' = [cl EXCEPT !.connected = FALSE]
           ELSE /\ client' = cl
                /\ UNCHANGED cenv
    /\ UNCHANGED outside_client

\* stop(), called by the owner while run() runs: the flags are reset, the
\* capture is stopped, and a close of _ws is scheduled when there is one.
Stop ==
    /\ client.running
    /\ client' = [client EXCEPT !.running = FALSE, !.connected = FALSE,
                                !.capture = FALSE,
                                !.close_scheduled = (client.ws # 0)]
    /\ UNCHANGED cenv
    /\ UNCHANGED outside_client

\* the close that stop() scheduled runs on the loop
StopClose ==
    /\ client.close_scheduled
    /\ client' = [client EXCEPT !.close_scheduled = FALSE]
    /\ cenv' = [cenv EXCEPT !.link = IF @ = "up" THEN "closed" ELSE @]
    /\ UNCHANGED outside_client

\* the server closes the connection, or the transport breaks
LinkDown(how) ==
    /\ cenv.link = "up"
    /\ cenv.losses < MaxLosses
    /\ cenv' = [cenv EXCEPT !.link = how, !.losses = @ + 1]
    /\ UNCHANGED client
    /\ UNCHANGED outside_client

\* the server's handler sends its status frame to the new connection
ServerGreets ==
    /\ cenv.link = "up"
    /\ ~cenv.greeted
    /\ cenv' = [cenv EXCEPT !.greeted = TRUE, !.inbox = Append(@, "status")]
    /\ UNCHANGED client
    /\ UNCHANGED outside_client

\* the server sends the result of a segment
ServerSend ==
    /\ cenv.link = "up"
    /\ cenv.greeted
    /\ cenv.msgs < MaxMsgs
    /\ cenv' = [cenv EXCEPT !.msgs = @ + 1, !.inbox = Append(@, "result")]
    /\ UNCHANGED client
    /\ UNCHANGED outside_client

NextClient ==
    \/ \E ok \in BOOLEAN : ConnectReturn(ok)
    \/ RetryWake
    \/ Receive
    \/ ReceiveEnd
    \/ CloseReturn
    \/ ReconnectWake
    \/ OnAudio
    \/ SendAudio
    \/ Stop
    \/ StopClose
    \/ \E how \in Closes : LinkDown(how)
    \/ ServerGreets
    \/ ServerSend

SpecClient == InitSeg /\ [][NextClient]_vars

\* The event loop runs what is ready: a connect attempt returns, a sleep
\* ends, a frame or the end of the connection reaches _receive_loop, a
\* close returns, a scheduled call runs.  The server sends its greeting.
\* Nothing makes the owner stop, the capture produce, the connection break
\* or an attempt succeed.
FairClient ==
    /\ SpecClient
    /\ WF_vars(\E ok \in BOOLEAN : ConnectReturn(ok))
    /\ WF_vars(RetryWake)
    /\ WF_vars(Receive)
    /\ WF_vars(ReceiveEnd)
    /\ WF_vars(CloseReturn)
    /\ WF_vars(ReconnectWake)
    /\ WF_vars(SendAudio)
    /\ WF_vars(StopClose)
    /\ WF_vars(ServerGreets)

(***************************************************************************)
(* The translators of src/server/translators, called directly              *)
(***************************************************************************)
InputTexts == {"", " ", "hello"}      \* empty, blank, words
Codes == {"RU", "ru", "ZH", "XX"}     \* language codes; XX is no language
Sources == {None, "en"}
Translators == {"google", "deepl", "local"}

\* str.strip, str.upper and str.lower on these texts and codes
strip(text) == IF text \in {"", " "} THEN "" ELSE text
upper(code) == CASE code = "ru" -> "RU" [] code = "en" -> "EN" [] OTHER -> code
lower(code) == CASE code = "RU" -> "ru" [] code = "ZH" -> "zh"
                 [] code = "XX" -> "xx" [] OTHER -> code

\* LANG_MAP.get(code.upper(), code.lower()) of google.py
LANG_MAP(code) ==
    CASE upper(code) = "EN" -> "en" [] upper(code) = "RU" -> "ru"
      [] upper(code) = "ZH" -> "zh-CN" [] OTHER -> lower(code)

\* NLLB_CODES.get(code.upper()) of local.py
NLLB_CODES(code) ==
    CASE upper(code) = "EN" -> "eng_Latn" [] upper(code) = "RU" -> "rus_Cyrl"
      [] upper(code) = "ZH" -> "zho_Hans" [] OTHER -> None

\* What a call of translate gives: the text returned (<<>> is the empty
\* string), whether the provider was reached, whether the call raised.
Returned(out) == [out |-> out, provider |-> FALSE, raised |-> FALSE]
Provided(out) == [out |-> out, provider |-> TRUE, raised |-> FALSE]
Raised(provider) == [out |-> None, provider |-> provider, raised |-> TRUE]

\* GoogleTranslator.translate without its test of the text
GoogleTranslator_translate_eager(text, target_lang, source_lang, ok) ==
    LET target == LANG_MAP(target_lang)
        source == IF source_lang # None THEN LANG_MAP(source_lang) ELSE "auto"
    IN  IF ok THEN Provided(<<"google", source, target, text>>)
        ELSE Raised(TRUE)

\* GoogleTranslator.translate; ok: the provider answers, else it raises
GoogleTranslator_translate(text, target_lang, source_lang, ok) ==
    IF strip(text) = "" THEN Returned(<<>>)
    ELSE LET target == LANG_MAP(target_lang)
             source == IF source_lang # None THEN LANG_MAP(source_lang)
                       ELSE "auto"
         IN  IF ok THEN Provided(<<"google", source, target, text>>)
             ELSE Raised(TRUE)

\* DeepLTranslator.translate
DeepLTranslator_translate(text, target_lang, source_lang, ok) ==
    IF strip(text) = "" THEN Returned(<<>>)
    ELSE LET target == upper(target_lang)
             source == IF source_lang # None THEN upper(source_lang) ELSE None
         IN  IF ok THEN Provided(<<"deepl", source, target, text>>)
             ELSE Raised(TRUE)

\* LocalTranslator.translate: the model is loaded at the first text that is
\* not blank; a target without an NLLB code raises before the model is run
LocalTranslator_translate(text, target_lang, source_lang, ok) ==
    IF strip(text) = "" THEN Returned(<<>>)
    ELSE LET target_code == NLLB_CODES(target_lang)
             source_code == IF source_lang # None THEN NLLB_CODES(source_lang)
                            ELSE "eng_Latn"
         IN  IF target_code = None THEN Raised(TRUE)
             ELSE IF ok THEN Provided(<<"local", source_code, target_code, text>>)
             ELSE Raised(TRUE)

\* translator.translate(text, target_lang, source_lang) is called
TranslateCall(tr, text, target_lang, source_lang, ok) ==
    /\ probe' = [fn |-> "translate", translator |-> tr, text |-> text,
                 ret |-> CASE tr = "google" ->
                               GoogleTranslator_translate(text, target_lang, source_lang, ok)
                           [] tr = "deepl" ->
                               DeepLTranslator_translate(text, target_lang, source_lang, ok)
                           [] tr = "local" ->
                               LocalTranslator_translate(text, target_lang, source_lang, ok)]
    /\ UNCHANGED <<server_vars, client_vars, lifecycle, engines, audio_capture>>

\* One connection that sends utterances, and the translators called directly
NextTranslate ==
    \/ \E ok \in BOOLEAN : Start(ok)
    \/ /\ Connect(1)
       /\ UNCHANGED outside_handlers
    \/ /\ SendStatus(1)
       /\ UNCHANGED outside_handlers
    \/ /\ AudioHandled < MaxFrames /\ HandleAudio(1, Utterance)
       /\ UNCHANGED outside_handlers
    \/ /\ \E out \in Outcomes : TranscribeReturn(1, out)
       /\ UNCHANGED outside_handlers
    \/ /\ \E ok \in BOOLEAN : TranslateReturn(1, ok)
       /\ UNCHANGED outside_handlers
    \/ \E tr \in Translators, text \in InputTexts, target_lang \in Codes,
          source_lang \in Sources, ok \in BOOLEAN :
          TranslateCall(tr, text, target_lang, source_lang, ok)

SpecTranslate == InitSeg /\ [][NextTranslate]_vars

(***************************************************************************)
(* The engines: load() and unload() of src/server/transcriber.py and       *)
(* src/server/transcribers/, called in any order on an engine of each      *)
(* class.  probe records the call made last.                               *)
(***************************************************************************)
Calls == IF "call" \in DOMAIN probe THEN probe.call ELSE 0

\* e.load(), the construction of the model succeeding or raising
EngineLoad(e, ok) ==
    /\ Calls < MaxCalls
    /\ engines' = [engines EXCEPT ![e] = load(@, ok)]
    /\ probe' = [fn |-> "load", engine |-> e,
                 raised |-> load_raises(engines[e], ok), call |-> Calls + 1]
    /\ UNCHANGED <<server_vars, client_vars, lifecycle, audio_capture>>

\* e.unload(), which raises nothing
EngineUnload(e) ==
    /\ Calls < MaxCalls
    /\ engines' = [engines EXCEPT ![e] = unload(e, @)]
    /\ probe' = [fn |-> "unload", engine |-> e, raised |-> FALSE,
                 call |-> Calls + 1]
    /\ UNCHANGED <<server_vars, client_vars, lifecycle, audio_capture>>

NextEngine ==
    \/ \E e \in EngineClasses, ok \in BOOLEAN : EngineLoad(e, ok)
    \/ \E e \in EngineClasses : EngineUnload(e)

SpecEngine == InitSeg /\ [][NextEngine]_vars

(***************************************************************************)
(* The protocol: encode_message and decode_message of                      *)
(* src/shared/protocol.py, which are json.dumps and json.loads.            *)
(*                                                                         *)
(* A text is the sequence of its code points, and so is the JSON text.  A  *)
(* float is the shortest decimal that names it: its digits, without zeros  *)
(* at either end, and the position decpt of the point, the value being     *)
(* 0.d1d2...dn * 10^decpt; zero has the digit 0 and decpt 1.  A dict is    *)
(* the sequence of its items in the order of insertion.                    *)
(***************************************************************************)
Alphabet == <<"a", "b", "c", "d", "e", "f", "g", "h", "i", "j", "k", "l", "m",
              "n", "o", "p", "q", "r", "s", "t", "u", "v", "w", "x", "y", "z">>
\* ord of a lower-case letter, and the text of a word of such letters
Ord(ch) == 96 + CHOOSE i \in 1..Len(Alphabet) : Alphabet[i] = ch
Str(chars) == [i \in 1..Len(chars) |-> Ord(chars[i])]

StrVal(text) == [t |-> "str", s |-> text, digits |-> <<>>, decpt |-> 0]
FloatVal(digits, decpt) == [t |-> "float", s |-> <<>>, digits |-> digits, decpt |-> decpt]
IntVal(digits) == [t |-> "int", s |-> <<>>, digits |-> digits, decpt |-> Len(digits)]

RECURSIVE Concat(_)
Concat(seqs) == IF seqs = <<>> THEN <<>> ELSE Head(seqs) \o Concat(Tail(seqs))

Zeros(n) == [i \in 1..n |-> 48]
DigitChars(digits) == [i \in 1..Len(digits) |-> 48 + digits[i]]
RECURSIVE NatDigits(_)
NatDigits(k) == IF k < 10 THEN <<k>> ELSE Append(NatDigits(k \div 10), k % 10)

\* float.__repr__: the shortest digits, with an exponent when decpt is at
\* most -4 or above 16, else in fixed notation, ".0" added to an integer
float_repr(v) ==
    LET D == DigitChars(v.digits)
        n == Len(D)
        e == v.decpt - 1
        mag == IF e < 0 THEN 0 - e ELSE e
    IN  IF v.decpt <= -4 \/ v.decpt > 16
        THEN (IF n = 1 THEN <<D[1]>> ELSE <<D[1], 46>> \o SubSeq(D, 2, n))
             \o <<101, IF e < 0 THEN 45 ELSE 43>>
             \o (IF mag < 10 THEN <<48>> ELSE <<>>) \o DigitChars(NatDigits(mag))
        ELSE IF v.decpt <= 0 THEN <<48, 46>> \o Zeros(0 - v.decpt) \o D
        ELSE IF v.decpt < n
        THEN SubSeq(D, 1, v.decpt) \o <<46>> \o SubSeq(D, v.decpt + 1, n)
        ELSE D \o Zeros(v.decpt - n) \o <<46, 48>>

HexDigit(n) == IF n < 10 THEN 48 + n ELSE 87 + n
Hex4(n) == <<HexDigit(n \div 4096), HexDigit((n \div 256) % 16),
             HexDigit((n \div 16) % 16), HexDigit(n % 16)>>

\* the encoder that writes every character outside ASCII as one \uXXXX
EscapeChar_bmp(c) ==
    CASE c = 34 -> <<92, 34>>
      [] c = 92 -> <<92, 92>>
      [] c = 10 -> <<92, 110>>
      [] c = 13 -> <<92, 114>>
      [] c = 9 -> <<92, 116>>
      [] c = 12 -> <<92, 102>>
      [] c = 8 -> <<92, 98>>
      [] OTHER -> IF c >= 32 /\ c <= 126 THEN <<c>>
                  ELSE <<92, 117>> \o Hex4(c % 65536)

\* py_encode_basestring_ascii on one character: the short escapes, the
\* printable ASCII as it is, \uXXXX for the rest, a surrogate pair above
\* U+FFFF
EscapeChar(c) ==
    CASE c = 34 -> <<92, 34>>
      [] c = 92 -> <<92, 92>>
      [] c = 10 -> <<92, 110>>
      [] c = 13 -> <<92, 114>>
      [] c = 9 -> <<92, 116>>
      [] c = 12 -> <<92, 102>>
      [] c = 8 -> <<92, 98>>
      [] OTHER -> IF c >= 32 /\ c <= 126 THEN <<c>>
                  ELSE IF c < 65536 THEN <<92, 117>> \o Hex4(c)
                  ELSE LET v == c - 65536
                       IN  <<92, 117>> \o Hex4(55296 + (v \div 1024))
                           \o <<92, 117>> \o Hex4(56320 + (v % 1024))

encode_string(text) ==
    <<34>> \o Concat([i \in 1..Len(text) |-> EscapeChar(text[i])]) \o <<34>>

\* the JSON text of a value: of a str (an Enum that is a str as its value),
\* of a float, of an int
encode_value(v) ==
    CASE v.t = "str" -> encode_string(v.s)
      [] v.t = "float" -> float_repr(v)
      [] v.t = "int" -> DigitChars(v.digits)

\* json.dumps of a dict, with the separators ", " and ": "
json_dumps(items) ==
    <<123>>
    \o Concat([i \in 1..Len(items) |->
                 (IF i = 1 THEN <<>> ELSE <<44, 32>>)
                 \o encode_string(items[i][1]) \o <<58, 32>>
                 \o encode_value(items[i][2])])
    \o <<125>>

\* dataclasses.asdict: the fields in the order of their declaration
asdict(msg) == msg.fields

\* encode_message(msg)
encode_message(msg) ==
    IF msg.dataclass THEN json_dumps(asdict(msg)) ELSE json_dumps(msg.fields)

HexValue(c) == IF c >= 97 THEN c - 87 ELSE IF c >= 65 THEN c - 55 ELSE c - 48
Hex4Value(text, i) ==
    HexValue(text[i]) * 4096 + HexValue(text[i + 1]) * 256
       + HexValue(text[i + 2]) * 16 + HexValue(text[i + 3])

\* the character of a short escape
Unescape(c) ==
    CASE c = 110 -> 10 [] c = 114 -> 13 [] c = 116 -> 9
      [] c = 102 -> 12 [] c = 98 -> 8 [] OTHER -> c

\* py_scanstring from index i, after the opening quote: the text up to the
\* closing quote and the index after it; a high surrogate followed by a
\* low one is one character
RECURSIVE scanstring(_, _, _)
scanstring(text, i, acc) ==
    IF text[i] = 34 THEN [val |-> StrVal(acc), end |-> i + 1]
    ELSE IF text[i] # 92 THEN scanstring(text, i + 1, Append(acc, text[i]))
    ELSE IF text[i + 1] # 117
    THEN scanstring(text, i + 2, Append(acc, Unescape(text[i + 1])))
    ELSE LET uni == Hex4Value(text, i + 2)
             paired == /\ uni >= 55296 /\ uni <= 56319
                       /\ i + 11 <= Len(text)
                       /\ text[i + 6] = 92 /\ text[i + 7] = 117
                       /\ Hex4Value(text, i + 8) >= 56320
                       /\ Hex4Value(text, i + 8) <= 57343
         IN  IF paired
             THEN scanstring(text, i + 12,
                     Append(acc, 65536 + (uni - 55296) * 1024
                                    + (Hex4Value(text, i + 8) - 56320)))
             ELSE scanstring(text, i + 6, Append(acc, uni))

IsDigit(text, i) == i <= Len(text) /\ text[i] >= 48 /\ text[i] <= 57
\* the index after the digits that begin at i
RECURSIVE DigitsEnd(_, _)
DigitsEnd(text, i) == IF IsDigit(text, i) THEN DigitsEnd(text, i + 1) ELSE i
DigitsOf(text, i, j) == [k \in 1..(j - i) |-> text[i + k - 1] - 48]
RECURSIVE NatOf(_)
NatOf(digits) ==
    IF digits = <<>> THEN 0
    ELSE 10 * NatOf(SubSeq(digits, 1, Len(digits) - 1)) + digits[Len(digits)]

\* float(): the decimal without the zeros at its ends
RECURSIVE Normalize(_, _)
Normalize(digits, decpt) ==
    IF digits = <<>> THEN FloatVal(<<0>>, 1)
    ELSE IF Head(digits) = 0 THEN Normalize(Tail(digits), decpt - 1)
    ELSE IF digits[Len(digits)] = 0
    THEN Normalize(SubSeq(digits, 1, Len(digits) - 1), decpt)
    ELSE FloatVal(digits, decpt)

\* the number at index i, by NUMBER_RE: the integer part, a fraction, an
\* exponent; an int without the last two, else a float
scannumber(text, i) ==
    LET int_end == DigitsEnd(text, i)
        has_frac == int_end <= Len(text) /\ text[int_end] = 46
        frac_end == IF has_frac THEN DigitsEnd(text, int_end + 1) ELSE int_end
        has_exp == frac_end <= Len(text) /\ text[frac_end] \in {101, 69}
        signed == has_exp /\ text[frac_end + 1] \in {43, 45}
        exp_from == frac_end + (IF signed THEN 2 ELSE 1)
        exp_end == IF has_exp THEN DigitsEnd(text, exp_from) ELSE frac_end
        mag == IF has_exp THEN NatOf(DigitsOf(text, exp_from, exp_end)) ELSE 0
        exp == IF signed /\ text[frac_end + 1] = 45 THEN 0 - mag ELSE mag
        integer == DigitsOf(text, i, int_end)
        frac == IF has_frac THEN DigitsOf(text, int_end + 1, frac_end) ELSE <<>>
    IN  [val |-> IF has_frac \/ has_exp
                 THEN Normalize(integer \o frac, Len(integer) + exp)
                 ELSE IntVal(integer),
         end |-> exp_end]

RECURSIVE SkipSpace(_, _)
SkipSpace(text, i) ==
    IF i <= Len(text) /\ text[i] = 32 THEN SkipSpace(text, i + 1) ELSE i

scanvalue(text, i) ==
    IF text[i] = 34 THEN scanstring(text, i + 1, <<>>) ELSE scannumber(text, i)

\* JSONObject from index i, after the brace: the items up to the closing brace
RECURSIVE scanobject(_, _, _)
scanobject(text, i, acc) ==
    LET at == SkipSpace(text, i)
    IN  IF text[at] = 125 THEN acc
        ELSE IF text[at] = 44 THEN scanobject(text, at + 1, acc)
        ELSE LET key == scanstring(text, at + 1, <<>>)
                 colon == SkipSpace(text, key.end)
                 value == scanvalue(text, SkipSpace(text, colon + 1))
             IN  scanobject(text, value.end, Append(acc, <<key.val.s, value.val>>))

\* json.loads of the text of an object
json_loads(text) == scanobject(text, SkipSpace(text, 1) + 1, <<>>)

\* decode_message(data)
decode_message(data) == json_loads(data)

\* d[key] of a dict that has the key, and its keys
Item(items, key) ==
    items[CHOOSE i \in DOMAIN items :
             items[i][1] = key /\ \A j \in DOMAIN items : items[j][1] = key => j <= i][2]
Keys(items) == {items[i][1] : i \in DOMAIN items}

\* MessageType.RESULT, a str
RESULT == StrVal(Str(<<"r", "e", "s", "u", "l", "t">>))

\* TranscriptionResult(original, translated, language, confidence,
\* timestamp), its type the default
TranscriptionResult(original, translated, language, confidence, timestamp) ==
    [dataclass |-> TRUE,
     fields |-> << <<Str(<<"o", "r", "i", "g", "i", "n", "a", "l">>), original>>,
                   <<Str(<<"t", "r", "a", "n", "s", "l", "a", "t", "e", "d">>), translated>>,
                   <<Str(<<"l", "a", "n", "g", "u", "a", "g", "e">>), language>>,
                   <<Str(<<"c", "o", "n", "f", "i", "d", "e", "n", "c", "e">>), confidence>>,
                   <<Str(<<"t", "i", "m", "e", "s", "t", "a", "m", "p">>), timestamp>>,
                   <<Str(<<"t", "y", "p", "e">>), RESULT>> >>]

\* the dict that _process_buffer builds for a result
response(original, translated, language, confidence, timestamp) ==
    [dataclass |-> FALSE,
     fields |-> << <<Str(<<"t", "y", "p", "e">>), RESULT>>,
                   <<Str(<<"o", "r", "i", "g", "i", "n", "a", "l">>), original>>,
                   <<Str(<<"t", "r", "a", "n", "s", "l", "a", "t", "e", "d">>), translated>>,
                   <<Str(<<"l", "a", "n", "g", "u", "a", "g", "e">>), language>>,
                   <<Str(<<"c", "o", "n", "f", "i", "d", "e", "n", "c", "e">>), confidence>>,
                   <<Str(<<"t", "i", "m", "e", "s", "t", "a", "m", "p">>), timestamp>> >>]

\* The values of the fields: texts with a quote and a backslash, with a line
\* feed, in Cyrillic, with a character above U+FFFF; confidences 0.93, 1.0,
\* 0.0, 1e-05; timestamps 1700000000.0, 1725000000.25, 1e+16
Originals == {<<>>, Str(<<"h", "i">>) \o <<32>> \o Str(<<"y", "o", "u">>),
              <<34, 104, 92, 34>>, <<104, 10, 233>>}
Translations == {<<>>, <<1087, 1088, 1080, 32, 1084>>, <<128512, 47, 127>>}
Languages == {Str(<<"e", "n">>), Str(<<"r", "u">>)}
Confidences == {FloatVal(<<9, 3>>, 0), FloatVal(<<1>>, 1), FloatVal(<<0>>, 1),
                FloatVal(<<1>>, -4)}
Timestamps == {FloatVal(<<1, 7>>, 10),
               FloatVal(<<1, 7, 2, 5, 0, 0, 0, 0, 0, 0, 2, 5>>, 10),
               FloatVal(<<1>>, 17)}

\* a frame is encoded and the text decoded, once
RoundTrip(dataclass, original, translated, language, confidence, timestamp) ==
    LET m == IF dataclass
             THEN TranscriptionResult(StrVal(original), StrVal(translated),
                                      StrVal(language), confidence, timestamp)
             ELSE response(StrVal(original), StrVal(translated),
                           StrVal(language), confidence, timestamp)
        data == encode_message(m)
    IN  /\ probe.fn = "none"
        /\ probe' = [fn |-> "round_trip", m |-> m, data |-> data,
                     back |-> decode_message(data)]
        /\ UNCHANGED <<server_vars, client_vars, lifecycle, engines, audio_capture>>

NextProtocol ==
    \E dataclass \in BOOLEAN, original \in Originals, translated \in Translations,
       language \in Languages, confidence \in Confidences, timestamp \in Timestamps :
          RoundTrip(dataclass, original, translated, language, confidence, timestamp)

SpecProtocol == InitSeg /\ [][NextProtocol]_vars

(***************************************************************************)
(* resample_audio of src/client/audio_capture.py                           *)
(*                                                                         *)
(* An array is an object with its samples; a sample is a fraction num/den  *)
(* in lowest terms.  The output of scipy's resample_poly is a new array of *)
(* the length scipy gives it, its samples those the filter produces, which *)
(* the caller of the operator chooses; on the empty array it may raise.    *)
(***************************************************************************)
RECURSIVE gcd(_, _)
gcd(a, b) == IF b = 0 THEN a ELSE gcd(b, a % b)

Sample(num, den) ==
    LET g == gcd(IF num < 0 THEN 0 - num ELSE num, den)
    IN  [num |-> num \div g, den |-> den \div g]

Array(obj, samples) == [obj |-> obj, samples |-> samples, raised |-> FALSE]
Raises == [obj |-> "none", samples |-> <<>>, raised |-> TRUE]

\* the length of signal.resample_poly(audio, up, down)
poly_len(n, up, down) == (n * up) \div down + (IF (n * up) % down = 0 THEN 0 ELSE 1)

\* np.interp(np.linspace(0, n - 1, target_len), np.arange(n), audio)
interp(samples, target_len) ==
    LET n == Len(samples)
        D == IF target_len > 1 THEN target_len - 1 ELSE 1
    IN  [i \in 1..target_len |->
           LET pos == (i - 1) * (n - 1)
               k == pos \div D
               r == pos % D
               a == samples[k + 1]
               b == IF r = 0 THEN a ELSE samples[k + 2]
           IN  \* a + (r/D) * (b - a)
               Sample(a.num * b.den * D + r * (b.num * a.den - a.num * b.den),
                      a.den * b.den * D)]

\* resample_audio without the test of the rates
resample_audio_always(audio, orig_sr, target_sr, has_scipy, poly) ==
    IF has_scipy THEN poly
    ELSE LET target_len == (Len(audio.samples) * target_sr) \div orig_sr
         IN  IF Len(audio.samples) = 0 THEN Raises
             ELSE Array("new", interp(audio.samples, target_len))

\* resample_audio(audio, orig_sr, target_sr), with HAS_SCIPY and with the
\* array that resample_poly returns when it is called
resample_audio(audio, orig_sr, target_sr, has_scipy, poly) ==
    IF orig_sr = target_sr THEN audio
    ELSE IF has_scipy THEN poly
    ELSE LET target_len == (Len(audio.samples) * target_sr) \div orig_sr
         IN  IF Len(audio.samples) = 0 THEN Raises
             ELSE Array("new", interp(audio.samples, target_len))

\* the arrays given, of samples -1, 0 and 1/2, and the sample rates
Rates == {16000, 48000}
GivenSamples == {Sample(-1, 1), Sample(0, 1), Sample(1, 2)}
Audios == UNION {[1..n -> GivenSamples] : n \in 0..MaxAudio}
\* what resample_poly may return for n samples: an array of its length
FilterSamples == {Sample(0, 1), Sample(1, 2)}
PolyReturns(n, orig_sr, target_sr) ==
    LET g == gcd(orig_sr, target_sr)
        n_out == poly_len(n, target_sr \div g, orig_sr \div g)
    IN  {Array("new", out) : out \in [1..n_out -> FilterSamples]}
        \cup (IF n = 0 THEN {Raises} ELSE {})

\* resample_audio is called, once
ResampleCall(samples, orig_sr, target_sr, has_scipy) ==
    /\ probe.fn = "none"
    /\ \E poly \in PolyReturns(Len(samples), orig_sr, target_sr) :
          probe' = [fn |-> "resample_audio", audio |-> Array("x", samples),
                    orig_sr |-> orig_sr, target_sr |-> target_sr,
                    has_scipy |-> has_scipy,
                    ret |-> resample_audio(Array("x", samples), orig_sr,
                                           target_sr, has_scipy, poly)]
    /\ UNCHANGED <<server_vars, client_vars, lifecycle, engines, audio_capture>>

NextResample ==
    \E samples \in Audios, orig_sr \in Rates, target_sr \in Rates,
       has_scipy \in BOOLEAN :
          ResampleCall(samples, orig_sr, target_sr, has_scipy)

SpecResample == InitSeg /\ [][NextResample]_vars

(***************************************************************************)
(* The capture: AudioCapture of src/client/audio_capture.py                *)
(*                                                                         *)
(* audio_capture.th is where the capture thread is; stop() is called from  *)
(* two other threads, and audio_capture.stopper is where each call is.     *)
(***************************************************************************)
\* str.lower on the characters of the device names
lower_char(ch) ==
    CASE ch = "H" -> "h" [] ch = "D" -> "d" [] ch = "M" -> "m"
      [] ch = "S" -> "s" [] OTHER -> ch
lower_name(name) == [i \in 1..Len(name) |-> lower_char(name[i])]

\* a in b, for strings
Within(a, b) ==
    \E i \in 0..(Len(b) - Len(a)) : SubSeq(b, i + 1, i + Len(a)) = a

\* the first of the indices in S, or 0
First(S) == IF S = {} THEN 0 ELSE CHOOSE i \in S : \A j \in S : i <= j

\* the lookup that compares the names as they are written
find_loopback_device_exact(setup) ==
    LET apis == setup.machine.host_apis
        devs == setup.machine.devices
        wasapi_index == First({i \in 1..Len(apis) : apis[i] = WASAPI})
        named == ~setup.device_name.none /\ setup.device_name.chars # <<>>
    IN  IF wasapi_index = 0 THEN 0
        ELSE First({i \in 1..Len(devs) :
                      /\ devs[i].hostApi = wasapi_index
                      /\ devs[i].isLoopbackDevice
                      /\ named => Within(setup.device_name.chars, devs[i].name)})

\* _find_loopback_device: the index of the device to use, or 0 for None
find_loopback_device(setup) ==
    LET apis == setup.machine.host_apis
        devs == setup.machine.devices
        wasapi_index == First({i \in 1..Len(apis) : apis[i] = WASAPI})
        named == ~setup.device_name.none /\ setup.device_name.chars # <<>>
    IN  IF wasapi_index = 0 THEN 0
        ELSE First({i \in 1..Len(devs) :
                      /\ devs[i].hostApi = wasapi_index
                      /\ devs[i].isLoopbackDevice
                      /\ named => Within(lower_name(setup.device_name.chars),
                                         lower_name(devs[i].name))})

\* start(), which VoiceClient.run() calls once
CaptureStart ==
    /\ ~audio_capture.started
    /\ audio_capture' =
          IF audio_capture.running
          THEN [audio_capture EXCEPT !.started = TRUE]
          ELSE [audio_capture EXCEPT !.started = TRUE, !.running = TRUE,
                                     !.thread = "thread", !.th = "find"]
    /\ UNCHANGED <<server_vars, client_vars, lifecycle, engines, probe>>

\* _capture_loop begins: PyAudio is created and the device is looked for;
\* without one the failure is printed and the thread ends
FindDevice ==
    /\ audio_capture.th = "find"
    /\ LET device == find_loopback_device(audio_capture.setup)
       IN  audio_capture' =
              IF device = 0
              THEN [audio_capture EXCEPT !.pa = TRUE, !.reports = @ + 1,
                                         !.th = "terminate"]
              ELSE [audio_capture EXCEPT !.pa = TRUE, !.device = device,
                                         !.th = "open"]
    /\ UNCHANGED <<server_vars, client_vars, lifecycle, engines, probe>>

\* self._pa.open returns the stream, or raises
OpenReturn(ok) ==
    /\ audio_capture.th = "open"
    /\ audio_capture' =
          IF ok THEN [audio_capture EXCEPT !.stream = "open", !.th = "check"]
          ELSE [audio_capture EXCEPT !.th = "terminate"]
    /\ UNCHANGED <<server_vars, client_vars, lifecycle, engines, probe>>

\* while self._running: the next read begins, or the loop is left
LoopCheck ==
    /\ audio_capture.th = "check"
    /\ audio_capture' =
          [audio_capture EXCEPT !.th = IF audio_capture.running THEN "read"
                                       ELSE "close"]
    /\ UNCHANGED <<server_vars, client_vars, lifecycle, engines, probe>>

\* the capture loop that gives up at the first error
ReadReturn_fragile(ok) ==
    /\ audio_capture.th = "read"
    /\ audio_capture.reads < MaxReads
    /\ audio_capture' =
          IF ok
          THEN [audio_capture EXCEPT !.reads = @ + 1, !.callbacks = @ + 1,
                                     !.th = "callback"]
          ELSE [audio_capture EXCEPT !.reads = @ + 1, !.errors = @ + 1,
                                     !.th = "close"]
    /\ UNCHANGED <<server_vars, client_vars, lifecycle, engines, probe>>

\* stream.read returns and the block is converted, and on_audio is called
\* with it; or one of them raises, which is printed and followed by a sleep
ReadReturn(ok) ==
    /\ audio_capture.th = "read"
    /\ audio_capture.reads < MaxReads
    /\ audio_capture' =
          IF ok
          THEN [audio_capture EXCEPT !.reads = @ + 1, !.callbacks = @ + 1,
                                     !.th = "callback"]
          ELSE [audio_capture EXCEPT !.reads = @ + 1, !.errors = @ + 1,
                                     !.th = "sleep"]
    /\ UNCHANGED <<server_vars, client_vars, lifecycle, engines, probe>>

\* on_audio returns, or raises
CallbackReturn(ok) ==
    /\ audio_capture.th = "callback"
    /\ audio_capture' =
          IF ok THEN [audio_capture EXCEPT !.th = "check"]
          ELSE [audio_capture EXCEPT !.errors = @ + 1, !.th = "sleep"]
    /\ UNCHANGED <<server_vars, client_vars, lifecycle, engines, probe>>

\* time.sleep(0.1) after an error ends
SleepEnd ==
    /\ audio_capture.th = "sleep"
    /\ audio_capture' = [audio_capture EXCEPT !.sleeps = @ + 1, !.th = "check"]
    /\ UNCHANGED <<server_vars, client_vars, lifecycle, engines, probe>>

\* the inner finally: the stream is stopped and closed
CloseStream ==
    /\ audio_capture.th = "close"
    /\ audio_capture' = [audio_capture EXCEPT !.stream = "closed",
                                              !.th = "terminate"]
    /\ UNCHANGED <<server_vars, client_vars, lifecycle, engines, probe>>

\* the outer finally: PyAudio is terminated, and the thread ends
Terminate ==
    /\ audio_capture.th = "terminate"
    /\ audio_capture' = [audio_capture EXCEPT !.pa = FALSE, !.th = "ended"]
    /\ UNCHANGED <<server_vars, client_vars, lifecycle, engines, probe>>

\* stop() is called by s: _running is reset, and _thread is tested
StopCall(s) ==
    /\ audio_capture.stopper[s].pc = "idle"
    /\ audio_capture.stopper[s].calls < MaxStops
    /\ audio_capture' =
          IF audio_capture.thread # None
          THEN [audio_capture EXCEPT !.running = FALSE,
                                     !.stopper[s].pc = "join"]
          ELSE [audio_capture EXCEPT !.running = FALSE,
                                     !.stopper[s].calls = @ + 1]
    /\ UNCHANGED <<server_vars, client_vars, lifecycle, engines, probe>>

\* self._thread.join(timeout=2.0) is evaluated: _thread is read again, and
\* the join begins; None has no join
JoinBegin(s) ==
    /\ audio_capture.stopper[s].pc = "join"
    /\ audio_capture' =
          [audio_capture EXCEPT !.stopper[s].pc =
              IF audio_capture.thread = None THEN "raised" ELSE "joining"]
    /\ UNCHANGED <<server_vars, client_vars, lifecycle, engines, probe>>

\* a join without its timeout
JoinReturn_unbounded(s) ==
    /\ audio_capture.stopper[s].pc = "joining"
    /\ audio_capture.th = "ended"
    /\ audio_capture' =
          [audio_capture EXCEPT !.thread = None,
                                !.stopper[s].pc = "idle",
                                !.stopper[s].calls = @ + 1]
    /\ UNCHANGED <<server_vars, client_vars, lifecycle, engines, probe>>

\* the join returns, the thread having ended or the two seconds being over,
\* and _thread is reset
JoinReturn(s) ==
    /\ audio_capture.stopper[s].pc = "joining"
    /\ audio_capture' =
          [audio_capture EXCEPT !.thread = None,
                                !.stopper[s].pc = "idle",
                                !.stopper[s].calls = @ + 1,
                                !.timeouts = IF audio_capture.th = "ended"
                                             THEN @ ELSE 1]
    /\ UNCHANGED <<server_vars, client_vars, lifecycle, engines, probe>>

NextCapture ==
    \/ CaptureStart
    \/ FindDevice
    \/ \E ok \in BOOLEAN : OpenReturn(ok)
    \/ LoopCheck
    \/ \E ok \in BOOLEAN : ReadReturn(ok)
    \/ \E ok \in BOOLEAN : CallbackReturn(ok)
    \/ SleepEnd
    \/ CloseStream
    \/ Terminate
    \/ \E s \in Stoppers : StopCall(s)
    \/ \E s \in Stoppers : JoinBegin(s)
    \/ \E s \in Stoppers : JoinReturn(s)

\* any of the machines and device names
InitSetups ==
    /\ InitClient
    /\ InitHost
    /\ InitServer /\ translation_provider = "google"
    /\ \E setup \in Setups : audio_capture = NewCapture(setup)

SpecCapture == InitSetups /\ [][NextCapture]_vars

\* The capture thread runs while it is not waiting for the device or for
\* the callback, a sleep and a join end, and a caller of stop() goes on.
\* Nothing makes a read or a callback return.
FairCapture ==
    /\ SpecCapture
    /\ WF_vars(FindDevice)
    /\ WF_vars(\E ok \in BOOLEAN : OpenReturn(ok))
    /\ WF_vars(LoopCheck)
    /\ WF_vars(SleepEnd)
    /\ WF_vars(CloseStream)
    /\ WF_vars(Terminate)
    /\ \A s \in Stoppers : WF_vars(JoinBegin(s)) /\ WF_vars(JoinReturn(s))

(***************************************************************************)
(* Reading the history                                                     *)
(***************************************************************************)
\* the inbound frame i is a binary frame whose samples were decoded
AudioAt(i) == inbound[i].kind = "audio" /\ ~inbound[i].frame.odd

\* the handling of the inbound frame i flushed the buffer
FlushedAt(i) == \E k \in DOMAIN segments : segments[k].at = i

\* the last inbound frame before i whose handling flushed, or 0
PrevFlush(i) ==
    LET before == {j \in 1..(i - 1) : FlushedAt(j)}
    IN  IF before = {} THEN 0
        ELSE CHOOSE j \in before : \A h \in before : h <= j

\* the sample blocks received with the inbound frames j + 1 .. i, in order
RECURSIVE BlocksBetween(_, _)
BlocksBetween(j, i) ==
    IF i <= j THEN <<>>
    ELSE IF AudioAt(i)
         THEN Append(BlocksBetween(j, i - 1), inbound[i].frame.audio)
         ELSE BlocksBetween(j, i - 1)

\* the number of samples in a sequence of blocks
RECURSIVE TotalSamples(_)
TotalSamples(blocks) ==
    IF blocks = <<>> THEN 0
    ELSE NumSamples(blocks[1]) + TotalSamples(Tail(blocks))

\* the durations of the blocks added up, one after the other, in binary64
RECURSIVE SumDurations(_)
SumDurations(blocks) ==
    IF blocks = <<>> THEN FZero
    ELSE LET n == Len(blocks)
         IN  FAdd(SumDurations(SubSeq(blocks, 1, n - 1)),
                  FDiv(NumSamples(blocks[n]), sample_rate))

\* the last min(len, 4000) samples of a frame have an RMS under 0.01
TrailingSilence(audio) ==
    RmsBelow(LastSamples(audio, Min(NumSamples(audio), silence_window)),
             silence_threshold)

\* every sample of a frame that has samples is zero
FullySilent(audio) == audio # <<>> /\ \A r \in DOMAIN audio : audio[r][2] = 0

MinSamples == min_seconds * sample_rate
MaxSamples == max_seconds * sample_rate

(***************************************************************************)
(* C1  Handling one binary frame flushes the buffer if and only if, once   *)
(* the samples of the frame are appended, the buffered duration (the       *)
(* durations accumulated since the previous flush) is at least 2.0 s and   *)
(* either it is at least 10.0 s or the last min(len, 4000) samples of the  *)
(* frame have an RMS under 0.01; otherwise the frame is only accumulated   *)
(* and nothing is dispatched.                                              *)
(***************************************************************************)
C1_FlushIff ==
    \A i \in DOMAIN inbound :
        AudioAt(i) =>
            LET blocks   == BlocksBetween(PrevFlush(i), i)
                duration == SumDurations(blocks)
                due      == /\ FGeq(duration, min_duration)
                            /\ \/ FGeq(duration, max_duration)
                               \/ TrailingSilence(inbound[i].frame.audio)
            IN  /\ FlushedAt(i) <=> due
                /\ (i = Len(inbound) /\ ~due) =>
                      /\ audio_buffer = blocks
                      /\ pc[inbound[i].conn] = "recv"
                      /\ \A k \in DOMAIN segments : segments[k].at < i

\* a frame ending in silence was accumulated under the floor, and another
\* frame flushed without silence at the ceiling
C1_Witness ==
    /\ \E i \in DOMAIN inbound :
          /\ AudioAt(i) /\ ~FlushedAt(i)
          /\ TrailingSilence(inbound[i].frame.audio)
    /\ \E i \in DOMAIN inbound :
          /\ AudioAt(i) /\ FlushedAt(i)
          /\ ~TrailingSilence(inbound[i].frame.audio)

(***************************************************************************)
(* C2  Every flushed segment has a duration d with                         *)
(* minDuration <= d < maxDuration + one block; less than minDuration       *)
(* never flushes; when no frame ends in silence the flush happens on the   *)
(* first frame that brings the buffer to maxDuration or more.              *)
(* As claimed (C2_AsClaimed), and as amended (C2_SegmentDuration): a       *)
(* buffer whose samples total exactly maxDuration can stay unflushed,      *)
(* because the accumulated binary64 duration can round under 10.0, so      *)
(* d <= maxDuration + one block and the buffer holds at most maxDuration.  *)
(***************************************************************************)
C2_AsClaimed ==
    /\ \A k \in DOMAIN segments :
          LET n    == NumSamples(segments[k].audio)
              last == inbound[segments[k].at].frame.audio
          IN  /\ MinSamples <= n
              /\ n < MaxSamples + NumSamples(last)
              /\ ~TrailingSilence(last) => n >= MaxSamples
    /\ TotalSamples(audio_buffer) < MaxSamples

C2_SegmentDuration ==
    /\ \A k \in DOMAIN segments :
          LET n    == NumSamples(segments[k].audio)
              last == inbound[segments[k].at].frame.audio
          IN  /\ MinSamples <= n
              /\ n <= MaxSamples + NumSamples(last)
              /\ ~TrailingSilence(last) => n >= MaxSamples
    /\ TotalSamples(audio_buffer) <= MaxSamples

\* a segment of exactly maxDuration plus the block that flushed it
C2_Witness ==
    \E k \in DOMAIN segments :
        LET last == inbound[segments[k].at].frame.audio
        IN  /\ last # <<>>
            /\ NumSamples(segments[k].audio) = MaxSamples + NumSamples(last)

(***************************************************************************)
(* C3  The segments flushed so far followed by the buffer are the samples  *)
(* received, in order: a flush hands over every block ingested since the   *)
(* previous flush and empties the buffer in the same step, no block is     *)
(* split across two segments, and a fully silent frame that arrives when   *)
(* minDuration is already buffered causes exactly one flush.               *)
(***************************************************************************)
C3_NoLossNoDuplication ==
    LET n == Len(inbound)
    IN  /\ Concatenate([k \in DOMAIN segments |-> segments[k].audio]
                       \o audio_buffer)
             = Concatenate(BlocksBetween(0, n))
        /\ \A k \in DOMAIN segments :
              segments[k].audio =
                 Concatenate(BlocksBetween(PrevFlush(segments[k].at),
                                           segments[k].at))
        /\ audio_buffer = BlocksBetween(PrevFlush(n + 1), n)
        /\ \A i \in DOMAIN inbound :
              /\ Cardinality({k \in DOMAIN segments : segments[k].at = i}) <= 1
              /\ ( /\ AudioAt(i)
                   /\ FullySilent(inbound[i].frame.audio)
                   /\ TotalSamples(BlocksBetween(PrevFlush(i), i - 1))
                         >= MinSamples )
                 => FlushedAt(i)

\* a silent frame flushed a buffer of several blocks, and the next blocks
\* are buffered again
C3_Witness ==
    /\ audio_buffer # <<>>
    /\ \E k \in DOMAIN segments :
          LET i == segments[k].at
          IN  /\ FullySilent(inbound[i].frame.audio)
              /\ Len(BlocksBetween(PrevFlush(i), i)) >= 2
              /\ TotalSamples(BlocksBetween(PrevFlush(i), i - 1)) >= MinSamples

\* the positions in sent[c] of the result frames
ResultsAt(c) == {i \in DOMAIN sent[c] : sent[c][i].type = "result"}

\* the positions in sent[c] of the result frames for the segment k
FramesFor(c, k) == {i \in ResultsAt(c) : sent[c][i].segment = k}

(***************************************************************************)
(* C4  One segmenter per session: a segment whose result is sent to a      *)
(* connection contains only samples received on that connection, and the   *)
(* frames arriving on another connection change neither its buffered       *)
(* duration nor the moment its buffer is flushed.  The server keeps one    *)
(* buffer and one duration for all its connections, so this fails.         *)
(***************************************************************************)
C4_SeparateSegmenters ==
    /\ \A c \in Conns : \A i \in ResultsAt(c) :
          LET from == segments[sent[c][i].segment].from
          IN  \A b \in DOMAIN from : from[b] = c
    /\ \A k \in DOMAIN segments :
          \A b \in DOMAIN segments[k].from :
              segments[k].from[b] = segments[k].by

(***************************************************************************)
(* C5  When the audio stream of a session ends while the buffer is not     *)
(* empty, the partial buffer is discarded: its samples are in no later     *)
(* segment and the next session starts with an empty buffer and a zero     *)
(* duration.  Nothing resets the buffer when a handler ends, so the        *)
(* blocks of an ended session stay buffered: this fails.                   *)
(***************************************************************************)
C5_DiscardedAtEnd ==
    /\ \A b \in DOMAIN buffer_from : pc[buffer_from[b]] # "ended"
    /\ (\A c \in Conns : pc[c] \in {"idle", "ended"}) =>
          audio_buffer = <<>> /\ FIsZero(buffer_duration)

(***************************************************************************)
(* C6  Within one connection the result frames are sent in the order in    *)
(* which their segments were flushed, whatever the time the transcription  *)
(* and the translation take: in the frames sent to a connection, the       *)
(* results are for segments flushed by its handler, each later than the    *)
(* one before.                                                             *)
(***************************************************************************)
C6_ResultsInFlushOrder ==
    \A c \in Conns :
        /\ \A i \in ResultsAt(c) :
              /\ sent[c][i].segment \in DOMAIN segments
              /\ segments[sent[c][i].segment].by = c
        /\ \A i, j \in ResultsAt(c) :
              i < j => segments[sent[c][i].segment].at
                          < segments[sent[c][j].segment].at

\* a connection was sent the results of two segments, the first of them
\* translated
C6_Witness ==
    \E c \in Conns : \E i, j \in ResultsAt(c) :
        /\ i < j
        /\ sent[c][i].segment # sent[c][j].segment
        /\ sent[c][i].translated # <<>>

(***************************************************************************)
(* C7  If the translator raises while a transcribed segment is being       *)
(* translated and the connection is up, the step sends exactly one result  *)
(* frame for that segment, with the original text and an empty translated  *)
(* field, and the connection stays open with its handler back in the       *)
(* receive loop: the result is not dropped.                                *)
(***************************************************************************)
C7_TranslationFailure ==
    [][\A c \in Conns :
          ( /\ pc[c] = "translate"
            /\ open[c]
            /\ segments'[work[c].segment].translation = "raise" )
          => /\ sent'[c] = Append(sent[c],
                   Frame("result", segments[work[c].segment].result, <<>>,
                         work[c].segment, 0))
             /\ Cardinality({i \in DOMAIN sent'[c] :
                    /\ sent'[c][i].type = "result"
                    /\ sent'[c][i].segment = work[c].segment}) = 1
             /\ open'[c]
             /\ c \in clients'
             /\ pc'[c] = "recv"]_vars

\* a segment whose translation raised, its result frame sent with the text
\* and no translation, the connection still open
C7_Witness ==
    \E k \in DOMAIN segments :
        LET c == segments[k].by
        IN  /\ segments[k].translation = "raise"
            /\ segments[k].result \in EngineTexts \ {""}
            /\ open[c]
            /\ pc[c] = "recv"
            /\ \E i \in FramesFor(c, k) :
                  /\ sent[c][i].original = segments[k].result
                  /\ sent[c][i].translated = <<>>

(***************************************************************************)
(* C8  A flushed segment gets exactly one result frame when the            *)
(* transcription returns text and no frame of any type when it returns     *)
(* none; a segment whose overall RMS is under 0.005 is discarded without   *)
(* the engine being run; quiet blocks are accumulated into the buffer      *)
(* like any other block.                                                   *)
(***************************************************************************)
C8_OneFramePerText ==
    /\ \A k \in DOMAIN segments :
          LET s      == segments[k]
              frames == FramesFor(s.by, k)
          IN  /\ Cardinality(frames) <= 1
              /\ \A c \in Conns \ {s.by} : FramesFor(c, k) = {}
              /\ (s.result \in EngineTexts /\ s.translation # "pending") =>
                    \E i \in frames : sent[s.by][i].original = s.result
              /\ s.result \in {None, "pending"} => frames = {}
              /\ (RmsBelow(s.audio, quiet_threshold) /\ s.engine # "pending")
                    => s.engine = "no" /\ s.result = None
    /\ \A c \in Conns :
          /\ \A i \in DOMAIN sent[c] : sent[c][i].type \in {"status", "result"}
          /\ Cardinality(ResultsAt(c)) =
                Cardinality({k \in DOMAIN segments : FramesFor(c, k) # {}})
          /\ Len(sent[c]) <= 1 + Cardinality(ResultsAt(c))
    /\ \A i \in DOMAIN inbound :
          (AudioAt(i) /\ RmsBelow(inbound[i].frame.audio, quiet_threshold)) =>
              LET blocks == BlocksBetween(PrevFlush(i), i)
              IN  /\ blocks[Len(blocks)] = inbound[i].frame.audio
                  /\ (i = Len(inbound) /\ ~FlushedAt(i)) =>
                        audio_buffer = blocks
                  /\ \A k \in DOMAIN segments :
                        segments[k].at = i =>
                            segments[k].audio = Concatenate(blocks)

\* a segment of two quiet blocks was discarded without the engine, and a
\* segment that came back as text has its result frame
C8_Witness ==
    /\ \E k \in DOMAIN segments :
          /\ segments[k].engine = "no"
          /\ segments[k].result = None
          /\ Len(segments[k].from) >= 2
          /\ FramesFor(segments[k].by, k) = {}
    /\ \E k \in DOMAIN segments :
          /\ segments[k].result \in EngineTexts
          /\ FramesFor(segments[k].by, k) # {}
    /\ \E k \in DOMAIN segments :
          /\ segments[k].engine = "yes"
          /\ segments[k].result = None

\* the inbound frame i is a text frame
TextAt(i) == inbound[i].kind = "text"

\* a text frame the server cannot handle: not JSON, not a JSON object, or
\* an object whose type is missing or is not one a client sends as text
Unhandled(message) ==
    \/ message.json # "object"
    \/ Get(message.data, "type") \notin {"ping", "set_config"}

\* the positions in sent[c] of the error frames that answer the inbound
\* frame i
ErrorsFor(c, i) ==
    {n \in DOMAIN sent[c] : sent[c][n].type = "error" /\ sent[c][n].re = i}

(***************************************************************************)
(* C9  Every text frame the server cannot handle (invalid JSON, JSON that  *)
(* is not an object, an object whose type is missing or not recognised)    *)
(* is answered with exactly one error frame on the same connection.  Only  *)
(* invalid JSON is answered: the other frames get no error frame, so this  *)
(* fails.                                                                  *)
(***************************************************************************)
C9_ErrorForUnhandled ==
    \A i \in DOMAIN inbound :
        (TextAt(i) /\ Unhandled(inbound[i].frame)) =>
            Cardinality(ErrorsFor(inbound[i].conn, i)) = 1

(***************************************************************************)
(* C10  No text frame, whatever its content, makes the server close the    *)
(* connection or end the handler of the connection: once a text frame is   *)
(* handled the handler is back in its receive loop, the connection open    *)
(* and registered.  JSON that is not an object raises an exception that    *)
(* nothing catches, which ends the handler: this fails.                    *)
(***************************************************************************)
C10_TextKeepsSession ==
    [][\A c \in Conns :
          ( /\ Len(inbound') = Len(inbound) + 1
            /\ inbound'[Len(inbound')].kind = "text"
            /\ inbound'[Len(inbound')].conn = c )
          => /\ pc'[c] = "recv"
             /\ open'[c]
             /\ c \in clients']_vars

(***************************************************************************)
(* C11  No failure while a binary frame is handled ends an established     *)
(* session: the handler of a connection ends only once its transport is    *)
(* closed.  An exception of the engine (and an undecodable payload) is     *)
(* caught nowhere and ends the handler of an open connection: this fails.  *)
(***************************************************************************)
C11_OnlyTransportEnds ==
    [][\A c \in Conns :
          (open[c] /\ pc[c] \in {"recv", "transcribe", "translate"})
             => pc'[c] # "ended"]_vars

\* the handler of c is waiting for an inference call to return
InInference(c) == pc[c] \in {"transcribe", "translate"}

(***************************************************************************)
(* C12  While a transcription or translation call for a flushed segment    *)
(* is running, the server keeps handling the frames of that connection: a  *)
(* ping can be answered and an audio frame ingested before the call        *)
(* returns.  The handler awaits the call inside its receive loop, so no    *)
(* frame of the connection is handled until it returns: this fails.        *)
(***************************************************************************)
C12_ReceivesDuringInference ==
    \A c \in Conns :
        (InInference(c) /\ open[c]) =>
            /\ ENABLED HandleCommand(c, Ping)
            /\ ENABLED HandleAudio(c, NoSamples)

(***************************************************************************)
(* C13  An inference call that does not return for one connection stalls   *)
(* only that connection: whatever the other connections are doing can go   *)
(* on (a ping is answered, audio is segmented, an inference returns and    *)
(* its result is sent) and a new connection is accepted.                   *)
(***************************************************************************)
C13_OthersNotStalled ==
    \A c, d \in Conns :
        (c # d /\ InInference(c)) =>
            /\ pc[d] = "idle" => ENABLED Connect(d)
            /\ pc[d] = "status" => ENABLED SendStatus(d)
            /\ (pc[d] = "recv" /\ open[d]) =>
                  /\ ENABLED HandleCommand(d, Ping)
                  /\ ENABLED HandleAudio(d, NoSamples)
            /\ pc[d] = "transcribe" =>
                  \E out \in Outcomes : ENABLED TranscribeReturn(d, out)
            /\ pc[d] = "translate" => ENABLED TranslateReturn(d, TRUE)

\* a connection is in an inference, and since its segment was flushed
\* another connection had a ping answered and the result of a segment sent
C13_Witness ==
    \E c, d \in Conns :
        /\ c # d
        /\ pc[c] = "transcribe"
        /\ \E i \in DOMAIN sent[d] :
              /\ sent[d][i].type = "pong"
              /\ sent[d][i].re > segments[work[c].segment].at
        /\ \E i \in ResultsAt(d) : sent[d][i].segment > work[c].segment

\* this step handles a text frame on the connection c
HandlesText(c) ==
    /\ Len(inbound') = Len(inbound) + 1
    /\ inbound'[Len(inbound')].kind = "text"
    /\ inbound'[Len(inbound')].conn = c

\* this step handles a set_config frame
HandlesSetConfig ==
    /\ Len(inbound') = Len(inbound) + 1
    /\ inbound'[Len(inbound')].kind = "text"
    /\ inbound'[Len(inbound')].frame.json = "object"
    /\ Get(inbound'[Len(inbound')].frame.data, "type") = "set_config"

(***************************************************************************)
(* C14: in a round of _connect_with_retry in which connect() fails N times *)
(* and then succeeds, the client becomes connected at attempt N+1, and     *)
(* between each failed attempt and the next one there is exactly one wait, *)
(* always of RECONNECT_DELAY.                                              *)
(***************************************************************************)
\* the failed attempts among the first i entries of the round
FailsBefore(i) == Cardinality({j \in 1..i : cenv.log[j].ev = "fail"})
AttemptsBefore(i) == Cardinality({j \in 1..i : cenv.log[j].ev = "attempt"})

C14_FixedDelayRetry ==
    LET L == cenv.log
        n == Len(L)
    IN  /\ \A i \in 1..n :
            /\ L[i].ev = "attempt" =>
                  /\ L[i].n = FailsBefore(i) + 1
                  /\ AttemptsBefore(i) = FailsBefore(i) + 1
                  /\ L[i].n > 1 =>
                        /\ L[i - 1] = Event("sleep", RECONNECT_DELAY)
                        /\ L[i - 2] = Event("fail", L[i].n - 1)
            /\ L[i].ev = "fail" =>
                  /\ L[i - 1] = Event("attempt", L[i].n)
                  /\ i < n /\ L[i + 1] = Event("sleep", RECONNECT_DELAY)
                  /\ i + 2 <= n => L[i + 2] = Event("attempt", L[i].n + 1)
            /\ L[i].ev = "ok" =>
                  /\ i = n
                  /\ L[i - 1] = Event("attempt", L[i].n)
                  /\ L[i].n = FailsBefore(i) + 1
                  /\ AttemptsBefore(i) = FailsBefore(i) + 1
        /\ client.connected => L[n].ev = "ok"

\* connected at the third attempt, after two failed ones
C14_Witness ==
    /\ client.running /\ client.connected
    /\ cenv.log[Len(cenv.log)] = Event("ok", 3)
    /\ FailsBefore(Len(cenv.log)) = 2

(***************************************************************************)
(* C15: while the client is not stopped, a session that is lost (the       *)
(* connection closed or broken, or a send that failed and reset            *)
(* _connected) leads to a new connection attempt: the client does not stay *)
(* not connected without retrying.                                         *)
(***************************************************************************)
NotConnected == cenv.link \in Closes \/ ~client.connected

C15_LossLeadsToRetry ==
    (client.running /\ NotConnected)
        ~> (client.pc = "connecting" \/ ~client.running)

\* a new attempt is under way after a send failed on a lost session
C15_Witness ==
    /\ client.running /\ client.pc = "connecting"
    /\ cenv.send_failed /\ cenv.sessions >= 1

(***************************************************************************)
(* C16: after stop() the client starts no connection attempt and run()     *)
(* returns, wherever run() was when stop() was called; when the receive    *)
(* loop ends by a close or an error and the client is not stopped, run()   *)
(* goes on to reconnect.                                                   *)
(***************************************************************************)
C16_StopTerminates ==
    /\ [][~client.running =>
             /\ client.pc # "connecting" => client'.pc # "connecting"
             /\ client'.attempt = client.attempt
             /\ \A i \in 1..Len(cenv.log') :
                   cenv.log'[i].ev = "attempt" =>
                      i <= Len(cenv.log) /\ cenv.log[i] = cenv.log'[i]]_vars
    /\ ~client.running ~> client.pc = "done"
    /\ [][(client.pc = "receiving" /\ client'.pc # "receiving") =>
             IF client'.running
             THEN client'.pc = "closing" /\ cenv.link \in Closes
             ELSE client'.pc = "done"]_vars

\* run() has returned after a stop() that arrived during a connection
\* attempt which then succeeded
C16_Witness ==
    /\ client.pc = "done"
    /\ ~client.running /\ client.connected
    /\ client.ws # 0

(***************************************************************************)
(* C17: a frame is put on the wire only while the client is connected, and *)
(* a block the capture produced while the client was not connected is      *)
(* dropped: it is not scheduled for sending and is on the wire of no       *)
(* connection, then or later.                                              *)
(***************************************************************************)
\* the blocks captured while _running and _connected did not both hold
Dropped == {b \in 1..Len(cenv.blocks) : ~cenv.blocks[b]}
OnWire == {cenv.wire[i].block : i \in 1..Len(cenv.wire)}
Scheduled == {client.scheduled[i] : i \in 1..Len(client.scheduled)}

C17_SendOnlyConnected ==
    /\ [][cenv.wire' # cenv.wire =>
             /\ client.running /\ client.connected /\ client.ws # 0
             /\ client.pc = "receiving" /\ cenv.link = "up"
             /\ cenv.wire'[Len(cenv.wire')].session = client.ws]_vars
    /\ [](Dropped \cap (OnWire \cup Scheduled) = {})

\* a block was dropped while the client was reconnecting, and a later block
\* went out on the second connection
C17_Witness ==
    /\ cenv.blocks = <<FALSE, TRUE>>
    /\ cenv.wire = <<Sent(2, 2)>>
    /\ cenv.sessions = 2

(***************************************************************************)
(* C18: the frames on the wire are blocks of the capture, in the order of  *)
(* their capture and each at most once: the wire is a subsequence of the   *)
(* captured blocks, whatever the interleaving of captures, sends, losses   *)
(* and reconnects.                                                         *)
(***************************************************************************)
C18_WireInCaptureOrder ==
    /\ \A i \in 1..Len(cenv.wire) :
          cenv.wire[i].block \in 1..Len(cenv.blocks)
    /\ \A i, j \in 1..Len(cenv.wire) :
          i < j => cenv.wire[i].block < cenv.wire[j].block
    /\ \A i, j \in 1..Len(client.scheduled) :
          i < j => client.scheduled[i] < client.scheduled[j]
    /\ \A i \in 1..Len(cenv.wire), j \in 1..Len(client.scheduled) :
          cenv.wire[i].block < client.scheduled[j]

\* two blocks on the wire, one before and one after a reconnect
C18_Witness ==
    /\ cenv.wire = <<Sent(1, 1), Sent(2, 2)>>
    /\ cenv.sessions = 2

(***************************************************************************)
(* C21: the server listens only with the model loaded: a load() that fails *)
(* ends start() and no connection is ever accepted; on a connection the    *)
(* first frame sent is the status frame (whose model_loaded is the literal *)
(* True, and the model is loaded then), and it is sent before any inbound  *)
(* frame of that connection is handled.                                    *)
(***************************************************************************)
Accepted(c) == pc[c] # "idle"

C21_ServesOnlyLoaded ==
    /\ [](lifecycle = "listening" => engines["Transcriber"].model)
    /\ []((\E c \in Conns : Accepted(c)) => lifecycle = "listening")
    /\ [][lifecycle = "failed" => lifecycle' = "failed"]_vars
    /\ [](\A c \in Conns : sent[c] # <<>> =>
             /\ sent[c][1].type = "status"
             /\ engines["Transcriber"].model)
    /\ [][\A c \in Conns :
             (\E i \in Len(inbound) + 1 .. Len(inbound') : inbound'[i].conn = c)
                => /\ sent[c] # <<>>
                   /\ sent[c][1].type = "status"]_vars

\* a frame of a connection was handled and answered after the status frame
C21_Witness ==
    /\ lifecycle = "listening"
    /\ \E c \in Conns :
          /\ \E i \in 1..Len(inbound) : inbound[i].conn = c
          /\ Len(sent[c]) >= 2
          /\ sent[c][1].type = "status"

(***************************************************************************)
(* C22: translate with the empty text returns the empty string and does    *)
(* not reach the provider, for each of the three translators; and the      *)
(* server does not call its translator for an empty transcribed text.      *)
(***************************************************************************)
C22_EmptyTextShortCircuits ==
    /\ []((probe.fn = "translate" /\ probe.text = "") =>
             probe.ret = Returned(<<>>))
    /\ [][\A c \in Conns :
             (pc[c] = "transcribe" /\ pc'[c] = "translate") =>
                work'[c].text # ""]_vars
    /\ [](\A i \in 1..Len(segments) :
             segments[i].result = "" => segments[i].translation = "skipped")

\* the empty text was given to a translator, after the server had sent the
\* result of a segment whose text was empty
C22_Witness ==
    /\ probe.fn = "translate" /\ probe.text = ""
    /\ \E i \in 1..Len(segments) :
          /\ segments[i].result = ""
          /\ \E k \in 1..Len(sent[1]) :
                sent[1][k].type = "result" /\ sent[1][k].segment = i

(***************************************************************************)
(* C23: as claimed, a call of AudioCapture.stop() raises no error, be it   *)
(* the first, a second one after it, or one concurrent with another; and a *)
(* call that finds no thread changes nothing but _running.  This fails:    *)
(* stop() tests _thread and then reads it again for the join, and the      *)
(* other caller resets it in between.                                      *)
(***************************************************************************)
C23_StopIdempotent ==
    /\ [](\A s \in Stoppers : audio_capture.stopper[s].pc # "raised")
    /\ [][\A s \in Stoppers :
             (audio_capture.thread = None
                /\ audio_capture'.stopper[s].calls > audio_capture.stopper[s].calls)
             => audio_capture' =
                   [audio_capture EXCEPT !.running = FALSE,
                                         !.stopper[s].calls = @ + 1]]_vars

(***************************************************************************)
(* C24: once stop() has reset _running the capture thread begins no read:  *)
(* it ends the read and the callback it is in, leaves the loop, closes the *)
(* stream and terminates PyAudio; and the join of stop() returns, also     *)
(* when the thread stays in a read.                                        *)
(***************************************************************************)
InLoop == audio_capture.th \in {"check", "read", "callback", "sleep"}

C24_StopEndsCapture ==
    /\ [][(~audio_capture.running /\ audio_capture.th # "read")
             => audio_capture'.th # "read"]_vars
    /\ [][(audio_capture.th = "check" /\ ~audio_capture.running)
             => audio_capture'.th \in {"check", "close"}]_vars
    /\ [](audio_capture.th = "ended" =>
             ~audio_capture.pa /\ audio_capture.stream # "open")
    /\ (~audio_capture.running /\ InLoop)
          ~> (audio_capture.th \in {"ended", "read", "callback"})
    /\ (~audio_capture.running /\ audio_capture.th = "close")
          ~> (audio_capture.th = "ended")
    /\ \A s \in Stoppers :
          (audio_capture.stopper[s].pc = "joining")
             ~> (audio_capture.stopper[s].pc = "idle")

\* stop() has returned by its timeout while the thread is still in a read,
\* with the stream open
C24_Witness ==
    /\ audio_capture.timeouts = 1
    /\ \E s \in Stoppers : audio_capture.stopper[s] = [pc |-> "idle", calls |-> 1]
    /\ audio_capture.th = "read" /\ audio_capture.stream = "open"
    /\ ~audio_capture.running

(***************************************************************************)
(* C25: while the callback of an earlier block has not returned, the       *)
(* capture thread can still read the next block from the device.           *)
(***************************************************************************)
C25_CallbackDoesNotStallReads ==
    (/\ audio_capture.th = "callback"
     /\ audio_capture.running
     /\ audio_capture.reads < MaxReads)
       => ENABLED (\E ok \in BOOLEAN : ReadReturn(ok))

(***************************************************************************)
(* C26: an exception of the device read, of the processing of the block or *)
(* of the callback does not end capture: it is printed, the thread sleeps  *)
(* and then tests the loop again, reading the next block as long as        *)
(* _running is set; the thread leaves the loop only with _running reset.   *)
(***************************************************************************)
C26_ReadErrorsAreRetried ==
    /\ [][audio_capture'.errors > audio_capture.errors
             => /\ audio_capture'.errors = audio_capture.errors + 1
                /\ audio_capture'.th = "sleep"
                /\ audio_capture'.stream = "open"
                /\ audio_capture'.running = audio_capture.running]_vars
    /\ [][(InLoop /\ audio_capture'.th \notin {"check", "read", "callback", "sleep"})
             => /\ ~audio_capture.running
                /\ audio_capture.th = "check"
                /\ audio_capture'.th = "close"]_vars
    /\ [](audio_capture.errors =
             audio_capture.sleeps + (IF audio_capture.th = "sleep" THEN 1 ELSE 0))
    /\ (audio_capture.th = "sleep") ~> (audio_capture.th = "check")
    /\ (audio_capture.th = "sleep" /\ audio_capture.running)
          ~> (audio_capture.th = "read" \/ ~audio_capture.running)

\* a block is delivered to the callback after an error and its sleep, with
\* _running still set
C26_Witness ==
    /\ audio_capture.errors = 1
    /\ audio_capture.sleeps = 1
    /\ audio_capture.th = "callback"
    /\ audio_capture.callbacks >= 1
    /\ audio_capture.running

(***************************************************************************)
(* C27: the device used is the first loopback device of WASAPI whose name  *)
(* contains the filter, compared without case (every such device without a *)
(* filter); when there is none the failure is printed once, the thread     *)
(* ends without looking again, no stream is opened, nothing is read and    *)
(* the callback is never called.                                           *)
(***************************************************************************)
Matches(setup, i) ==
    LET dev == setup.machine.devices[i]
        filter == setup.device_name
    IN  /\ dev.hostApi \in DOMAIN setup.machine.host_apis
        /\ setup.machine.host_apis[dev.hostApi] = WASAPI
        /\ dev.isLoopbackDevice
        /\ (filter.none \/ filter.chars = <<>>
              \/ \E k \in 0..(Len(dev.name) - Len(filter.chars)) :
                   \A j \in 1..Len(filter.chars) :
                      lower_char(dev.name[k + j]) = lower_char(filter.chars[j]))

Matching(setup) ==
    {i \in DOMAIN setup.machine.devices : Matches(setup, i)}

Looked == audio_capture.th \notin {"none", "find"}

Called(fn, e) == probe' # probe /\ probe'.fn = fn /\ probe'.engine = e

C28_LifecycleIdempotent ==
    /\ [][\A e \in EngineClasses :
             (Called("load", e) /\ engines[e].model)
                => engines'[e] = engines[e] /\ ~probe'.raised]_vars
    /\ [][\A e \in EngineClasses :
             (Called("unload", e) /\ ~engines[e].model)
                => engines'[e] = engines[e] /\ ~probe'.raised]_vars
    /\ [](\A e \in EngineClasses :
             /\ engines[e].releases <= engines[e].loads
             /\ engines[e].model <=> engines[e].loads = engines[e].releases + 1
             /\ ~engines[e].model <=> engines[e].loads = engines[e].releases)

(***************************************************************************)
(* C29: decoding the encoded text of a result frame, given as a dict or as *)
(* a TranscriptionResult, gives a dict with the keys of the frame and with *)
(* a value equal to the frame's for each: type, original, translated,      *)
(* language, confidence and timestamp.                                     *)
(***************************************************************************)
C29_ResultRoundTrip ==
    probe.fn = "round_trip" =>
       /\ Keys(probe.back) = Keys(probe.m.fields)
       /\ Len(probe.back) = Len(probe.m.fields)
       /\ \A i \in DOMAIN probe.m.fields :
             Item(probe.back, probe.m.fields[i][1]) = probe.m.fields[i][2]

\* a dataclass frame with a translation above U+FFFF, written as a surrogate
\* pair in a text that is all ASCII, and a timestamp written with an exponent
C29_Witness ==
    /\ probe.fn = "round_trip"
    /\ probe.m.dataclass
    /\ Item(probe.m.fields, Str(<<"t", "r", "a", "n", "s", "l", "a", "t", "e", "d">>)).s
          = <<128512, 47, 127>>
    /\ Item(probe.m.fields, Str(<<"t", "i", "m", "e", "s", "t", "a", "m", "p">>))
          = FloatVal(<<1>>, 17)
    /\ \A i \in DOMAIN probe.data : probe.data[i] >= 32 /\ probe.data[i] <= 126
    /\ \E i \in DOMAIN probe.data :
          SubSeq(probe.data, i, i + 11)
             = <<92, 117, 100, 56, 51, 100, 92, 117, 100, 101, 48, 48>>
    /\ \E i \in DOMAIN probe.data :
          SubSeq(probe.data, i, i + 6) = <<32, 49, 101, 43, 49, 54, 44>>
    /\ Item(probe.back, Str(<<"t", "y", "p", "e">>)) = RESULT

(***************************************************************************)
(* C30: resample_audio with equal rates returns the array it was given:    *)
(* the same object, of the same length, with the same samples, whatever    *)
(* the array and the rate, with or without scipy.                          *)
(***************************************************************************)
C30_ResampleIdentity ==
    (probe.fn = "resample_audio" /\ probe.orig_sr = probe.target_sr) =>
       /\ ~probe.ret.raised
       /\ probe.ret.obj = probe.audio.obj
       /\ Len(probe.ret.samples) = Len(probe.audio.samples)
       /\ \A i \in DOMAIN probe.audio.samples :
             probe.ret.samples[i] = probe.audio.samples[i]

\* the call with equal rates on an array of MaxAudio samples, the first and
\* the last different
C30_Witness ==
    /\ probe.fn = "resample_audio"
    /\ probe.orig_sr = probe.target_sr
    /\ Len(probe.audio.samples) = MaxAudio
    /\ probe.audio.samples[1] # probe.audio.samples[MaxAudio]
    /\ probe.ret = probe.audio

(***************************************************************************)
(* C31: with different rates resample_audio raises nothing, on the empty   *)
(* array included, whose result is empty, and the length of the result is  *)
(* within one sample of len(x) * target_sr / orig_sr, with scipy and       *)
(* without.                                                                *)
(***************************************************************************)
C31_ResampledLength ==
    (probe.fn = "resample_audio" /\ probe.orig_sr # probe.target_sr) =>
       LET n == Len(probe.audio.samples)
           out == Len(probe.ret.samples)
           diff == out * probe.orig_sr - n * probe.target_sr
       IN  /\ ~probe.ret.raised
           /\ diff <= probe.orig_sr
           /\ 0 - diff <= probe.orig_sr
           /\ n = 0 => probe.ret.samples = <<>>

(***************************************************************************)
(* C32: in every state _buffer_duration is the durations of the blocks in  *)
(* _audio_buffer added up in their order, and zero when the buffer is      *)
(* empty; a step changes the buffer by one appended block, or empties it,  *)
(* with the duration changed in the same step.                             *)
(***************************************************************************)
C32_DurationIsSum ==
    /\ [](buffer_duration = SumDurations(audio_buffer))
    /\ [](audio_buffer = <<>> => FIsZero(buffer_duration))
    /\ [][audio_buffer' # audio_buffer =>
             \/ /\ audio_buffer' = <<>>
                /\ FIsZero(buffer_duration')
             \/ /\ Len(audio_buffer') = Len(audio_buffer) + 1
                /\ SubSeq(audio_buffer', 1, Len(audio_buffer)) = audio_buffer
                /\ buffer_duration' =
                      FAdd(buffer_duration,
                           FDiv(NumSamples(audio_buffer'[Len(audio_buffer')]),
                                sample_rate))]_vars

\* two blocks are in the buffer after a flush
C32_Witness ==
    /\ Len(audio_buffer) >= 2
    /\ segments # <<>>
    /\ ~FIsZero(buffer_duration)

(***************************************************************************)
(* C33: at most one call of transcriber.transcribe is in progress at any   *)
(* time, whatever the number of open connections.                          *)
(***************************************************************************)
C33_OneInferenceAtATime ==
    Cardinality({c \in Conns : pc[c] = "transcribe"}) <= 1

(***************************************************************************)
(* C34: in every state the translator is absent exactly when               *)
(* translation_provider is None, "none" or empty, and is otherwise the     *)
(* translator of the provider named.                                       *)
(***************************************************************************)
C34_ProviderNamesTranslator ==
    /\ translator = None <=> translation_provider \in {None, "none", ""}
    /\ translator # None => translator = translation_provider

(***************************************************************************)
(* C35: once stop() has returned, _connected is and stays False, and when  *)
(* run() has returned no connection is left open.                          *)
(***************************************************************************)
C35_StoppedStaysDisconnected ==
    /\ ~client.running => ~client.connected
    /\ (~client.running /\ client.pc = "done" /\ ~client.close_scheduled)
          => cenv.link # "up"

(***************************************************************************)
(* C36: _clients holds exactly the connections whose handler is running:   *)
(* a connection is added when its handler starts and removed when the      *)
(* handler ends, however it ends.                                          *)
(***************************************************************************)
C36_ClientsAreRunningHandlers ==
    clients = {c \in Conns : pc[c] \notin {"idle", "ended"}}

(***************************************************************************)
(* C37: the translation in the results sent to a connection does not       *)
(* depend on the set_config frames of the other connections: a connection  *)
(* that has sent no text frame gets its results translated to the target   *)
(* language the server was constructed with.                               *)
(***************************************************************************)
SentText(c) ==
    \E i \in DOMAIN inbound : inbound[i].conn = c /\ inbound[i].kind = "text"

C37_ConfigStaysOnItsConnection ==
    \A c \in Conns :
       ~SentText(c) =>
          \A i \in ResultsAt(c) :
             sent[c][i].translated # <<>> =>
                sent[c][i].translated = translate("google", sent[c][i].original, "RU")

(***************************************************************************)
(* C19  Handling a set_config frame changes only the settings named in     *)
(* it: the provider and the translator, the target language and the        *)
(* source language each keep their value when the frame does not name      *)
(* them, a language the frame names takes the value given, and the audio   *)
(* buffer and the buffered duration are left as they were.                 *)
(***************************************************************************)
C19_SetConfigOnlyNamed ==
    [][HandlesSetConfig =>
          LET data == inbound'[Len(inbound')].frame.data
          IN  /\ ~Has(data, "translation_provider") =>
                    UNCHANGED <<translator, translation_provider>>
              /\ IF Has(data, "target_language")
                 THEN target_language' = Get(data, "target_language")
                 ELSE UNCHANGED target_language
              /\ IF Has(data, "source_language")
                 THEN source_language' = Get(data, "source_language")
                 ELSE UNCHANGED source_language
              /\ UNCHANGED <<audio_buffer, buffer_duration>>]_vars

\* with audio in the buffer, a set_config that names only the target
\* language has changed it and nothing else
C19_Witness ==
    LET n == Len(inbound)
    IN  /\ n >= 2
        /\ inbound[n].kind = "text"
        /\ inbound[n].frame =
              Object({<<"type", "set_config">>, <<"target_language", "DE">>})
        /\ audio_buffer # <<>>
        /\ ~FIsZero(buffer_duration)
        /\ target_language = "DE"
        /\ source_language = "en"
        /\ translator = "google"
        /\ translation_provider = "google"

\* names that are in neither registry
UnknownNames == {"bing", "azure"}

(***************************************************************************)
(* C20  Selecting an engine by an unknown name fails at selection time:    *)
(* create_translator and create_transcriber raise for a name outside the   *)
(* registry, and when a set_config names a provider that is unknown or     *)
(* whose translator cannot be constructed, the server replies with an      *)
(* error frame, keeps the translator and the provider name it had, and     *)
(* keeps the connection open.  A set_config that names the provider the    *)
(* server was started with, whose translator could not be constructed,     *)
(* gets no error frame: this fails.                                        *)
(***************************************************************************)
C20_FailAtSelection ==
    [][/\ \A name \in UnknownNames :
             /\ create_translator(name) = "raise"
             /\ create_transcriber(name) = "raise"
       /\ \A c \in Conns :
             LET data == inbound'[Len(inbound')].frame.data
                 re   == Len(inbound')
             IN  ( /\ HandlesText(c)
                   /\ HandlesSetConfig
                   /\ Has(data, "translation_provider")
                   /\ create_translator(Get(data, "translation_provider"))
                         = "raise" )
                 => /\ sent'[c] = Append(sent[c],
                                         Frame("error", "", <<>>, 0, re))
                    /\ UNCHANGED <<translator, translation_provider>>
                    /\ pc'[c] = "recv"
                    /\ open'[c]
                    /\ c \in clients']_vars

TypeOK ==
    /\ clients \subseteq Conns
    /\ \A c \in Conns : pc[c] \in {"idle", "status", "recv", "transcribe",
                                   "translate", "ended"}
    /\ Len(audio_buffer) = Len(buffer_from)

============================================================================
